---- MODULE Spec2Model ----
(***************************************************************************)
(* MessageMind: the analysis orchestration of MessageMindAI (src/lib/ai.ts) *)
(* with its Gemini / GPT / Hugging Face adapters and local heuristics, and  *)
(* the conversation segmenter used by createKnowledgeBase.                  *)
(*                                                                         *)
(* Texts are modelled as sequences of lower-case words followed by a number *)
(* of question marks; the vocabulary is chosen so that a keyword occurs in  *)
(* a text as a substring exactly when it occurs in it as a word.  List-     *)
(* valued result fields are modelled by their length.                       *)
(***************************************************************************)
EXTENDS Integers, Sequences, FiniteSets, TLC

(***************************************************************************)
(* Bounds of the model.                                                    *)
(***************************************************************************)
MaxDayMsgs == 2
MaxMsgs == 4
MaxGeminiItems == 6
MaxStored == 2
MaxTexts == 2
MaxTokens == 4
MaxStartCalls == 2
MaxInvoked == 3

(***************************************************************************)
(* Program constants.                                                      *)
(***************************************************************************)
oneHour == 60 * 60 * 1000
oneDay == 24 * 60 * 60 * 1000
RecentLines == 15
MaxTopics == 5
MaxItems == 3

Rooms == {"Ann", "Bob"}

\* Time stamps of the messages given to createKnowledgeBase: gaps of exactly
\* the window, of the window plus one millisecond, and ties.
SegStamps == {0, oneHour, 2 * oneHour + 1}
Dates == {0}
\* Date.now() of the run.
Now == oneDay + oneHour

\* Message contents: words and trailing question marks.
RequestContent ==
  [words |-> <<"can", "you", "please", "check", "the", "report">>, qmarks |-> 1]
UrgentContent ==
  [words |-> <<"urgent", "important", "thanks", "great", "love">>, qmarks |-> 0]
ShortContent == [words |-> <<"ok">>, qmarks |-> 0]

Min(a, b) == IF a < b THEN a ELSE b

RECURSIVE SumLen(_)
SumLen(ws) == IF ws = <<>> THEN 0 ELSE Len(Head(ws)) + SumLen(Tail(ws))

\* content.trim().length
ContentLength(c) ==
  SumLen(c.words) + (IF Len(c.words) > 0 THEN Len(c.words) - 1 ELSE 0) + c.qmarks

(***************************************************************************)
(* Array.prototype.sort with the comparator a.timestamp - b.timestamp:     *)
(* ascending and stable (elements that compare equal keep their order).    *)
(***************************************************************************)
RECURSIVE InsertByTimestamp(_, _)
InsertByTimestamp(s, x) ==
  IF s = <<>> THEN <<x>>
  ELSE IF x.timestamp < Head(s).timestamp THEN <<x>> \o s
  ELSE <<Head(s)>> \o InsertByTimestamp(Tail(s), x)

RECURSIVE SortByTimestamp(_)
SortByTimestamp(s) ==
  IF s = <<>> THEN <<>>
  ELSE InsertByTimestamp(SortByTimestamp(SubSeq(s, 1, Len(s) - 1)), s[Len(s)])

(***************************************************************************)
(* groupMessagesByConversation: one pass over the time-sorted list; a new  *)
(* group starts when the gap to the previous message exceeds one hour or   *)
(* the room differs from the previous message's room.                      *)
(***************************************************************************)
PushGroup(groups, currentGroup) ==
  IF Len(currentGroup) > 0 THEN Append(groups, currentGroup) ELSE groups

RECURSIVE GroupLoop(_, _, _, _, _)
GroupLoop(rest, groups, currentGroup, lastTimestamp, lastRoom) ==
  IF rest = <<>> THEN PushGroup(groups, currentGroup)
  ELSE LET msg == Head(rest)
           timeDiff == msg.timestamp - lastTimestamp
       IN IF timeDiff > oneHour \/ msg.roomName # lastRoom
          THEN GroupLoop(Tail(rest), PushGroup(groups, currentGroup), <<msg>>,
                         msg.timestamp, msg.roomName)
          ELSE GroupLoop(Tail(rest), groups, Append(currentGroup, msg),
                         msg.timestamp, msg.roomName)

\* The groups before the length filter, from an already sorted list.
ConversationGroups(sortedMessages) == GroupLoop(sortedMessages, <<>>, <<>>, 0, "")

\* A filter that keeps groups of two.
MinGroupTwo(group) == Len(group) >= 2

MinGroup(group) == Len(group) >= 3

groupMessagesByConversation(sortedMessages) ==
  SelectSeq(ConversationGroups(sortedMessages), MinGroup)

(***************************************************************************)
(* groupMessagesByRoom: the messages of the target date, grouped by room   *)
(* in order of first appearance (the insertion order of the object keys).  *)
(***************************************************************************)
DayOf(timestamp) == timestamp \div oneDay

OnDate(msgs, date) == SelectSeq(msgs, LAMBDA m: DayOf(m.timestamp) = date)

RECURSIVE RoomOrder(_, _)
RoomOrder(msgs, seen) ==
  IF msgs = <<>> THEN seen
  ELSE RoomOrder(Tail(msgs),
                 IF \E i \in 1..Len(seen): seen[i] = Head(msgs).roomName
                 THEN seen ELSE Append(seen, Head(msgs).roomName))

\* Grouping by room without the date filter.
groupMessagesByRoomAnyDate(msgs, date) ==
  LET order == RoomOrder(msgs, <<>>)
  IN [i \in 1..Len(order) |-> SelectSeq(msgs, LAMBDA m: m.roomName = order[i])]

groupMessagesByRoom(msgs, date) ==
  LET day == OnDate(msgs, date)
      order == RoomOrder(day, <<>>)
  IN [i \in 1..Len(order) |-> SelectSeq(day, LAMBDA m: m.roomName = order[i])]

(***************************************************************************)
(* formatMessagesForAI: the last 15 messages, without the system and the   *)
(* too short ones, one line "<room>: <content>" each.                       *)
(***************************************************************************)
IsSystemOrShort(c) ==
  \/ (Len(c.words) > 0 /\ c.words[1] = "!login")
  \/ (\E i \in 1..Len(c.words): c.words[i] = "bridged")
  \/ ContentLength(c) < 3

LastN(s, n) == IF Len(s) > n THEN SubSeq(s, Len(s) - n + 1, Len(s)) ELSE s

RECURSIVE FormatLines(_)
FormatLines(msgs) ==
  IF msgs = <<>> THEN <<>>
  ELSE (IF IsSystemOrShort(Head(msgs).content) THEN <<>>
        ELSE <<[name |-> Head(msgs).roomName, content |-> Head(msgs).content]>>)
       \o FormatLines(Tail(msgs))

formatMessagesForAI(msgs) == FormatLines(LastN(msgs, RecentLines))

RECURSIVE TextWords(_)
TextWords(text) ==
  IF text = <<>> THEN <<>> ELSE Head(text).content.words \o TextWords(Tail(text))

RECURSIVE QuestionMarks(_)
QuestionMarks(text) ==
  IF text = <<>> THEN 0 ELSE Head(text).content.qmarks + QuestionMarks(Tail(text))

\* conversationText.length: the lines joined by "\n".
RECURSIVE LinesLength(_)
LinesLength(text) ==
  IF text = <<>> THEN 0
  ELSE Len(Head(text).name) + 2 + ContentLength(Head(text).content)
       + LinesLength(Tail(text))

TextLength(text) == LinesLength(text) + (IF Len(text) > 0 THEN Len(text) - 1 ELSE 0)

\* String.prototype.includes for a phrase of one or more words.
IncludesPhrase(words, phrase) ==
  \E i \in 1..Len(words):
     /\ i + Len(phrase) - 1 <= Len(words)
     /\ SubSeq(words, i, i + Len(phrase) - 1) = phrase

CountWordsIn(words, set) == Cardinality({i \in 1..Len(words): words[i] \in set})

(***************************************************************************)
(* The local heuristics.                                                   *)
(***************************************************************************)
urgentWords == {"urgent", "asap", "emergency", "important", "critical"}
positiveWords ==
  {"good", "great", "awesome", "love", "happy", "thanks", "excellent", "amazing", "perfect"}
negativeWords ==
  {"bad", "awful", "hate", "angry", "sad", "terrible", "horrible", "frustrated", "upset"}
actionIndicators ==
  { <<"need", "to">>, <<"should">>, <<"will">>, <<"going", "to">>, <<"plan", "to">>,
    <<"have", "to">>, <<"let", "me">>, <<"i'll">>, <<"we'll">>, <<"can", "you">>,
    <<"could", "you">>, <<"please">> }

\* A rating outside the three priorities.
PriorityOfScoreUrgent(priorityScore) ==
  IF priorityScore >= 1 THEN "urgent" ELSE "low"

PriorityOfScore(priorityScore) ==
  IF priorityScore >= 3 THEN "high"
  ELSE IF priorityScore >= 1 THEN "medium"
  ELSE "low"

\* A message counts as recent up to and including 24 h.
IsRecentInclusive(m) == Now - m.timestamp <= oneDay

\* Date.now() - m.timestamp.getTime() < 24 * 60 * 60 * 1000
IsRecent(m) == Now - m.timestamp < oneDay

PriorityScore(text, msgs) ==
  LET words == TextWords(text)
      recentMessages == Cardinality({i \in 1..Len(msgs): IsRecent(msgs[i])})
  IN 2 * Cardinality({w \in urgentWords: IncludesPhrase(words, <<w>>)})
     + (IF Len(msgs) > 20 THEN 1 ELSE 0)
     + (IF QuestionMarks(text) > 3 THEN 1 ELSE 0)
     + (IF recentMessages > 10 THEN 1 ELSE 0)

calculatePriorityHeuristic(text, msgs) == PriorityOfScore(PriorityScore(text, msgs))

generateSentimentAnalysis(text) ==
  LET words == TextWords(text)
      positiveScore == CountWordsIn(words, positiveWords)
      negativeScore == CountWordsIn(words, negativeWords)
  IN IF positiveScore > negativeScore + 1 THEN "positive"
     ELSE IF negativeScore > positiveScore + 1 THEN "negative"
     ELSE "neutral"

\* The number of topics: the distinct words longer than 4 characters, at
\* most 5 of them.
generateTopicsNaturally(text) ==
  LET words == TextWords(text)
      long == {words[i] : i \in {j \in 1..Len(words): Len(words[j]) > 4}}
              \cup {text[i].name : i \in {j \in 1..Len(text): Len(text[j].name) > 4}}
  IN Min(Cardinality(long), MaxTopics)

generateContextualInsights(text, msgs) ==
  LET messageCount == Len(msgs)
      timeSpan == IF Len(msgs) > 1
                  THEN msgs[Len(msgs)].timestamp - msgs[1].timestamp ELSE 0
      byTime == IF timeSpan > 0 /\ (timeSpan < oneHour \/ timeSpan > oneDay)
                THEN 1 ELSE 0
      byLength == IF TextLength(text) > 100 * messageCount
                     \/ TextLength(text) < 30 * messageCount
                  THEN 1 ELSE 0
      byQuestions == IF 10 * QuestionMarks(text) > 3 * messageCount THEN 1 ELSE 0
  IN Min(byTime + byLength + byQuestions, MaxItems)

analyzeConversationPatterns(msgs) ==
  IF Len(msgs) < 2 THEN 0
  ELSE LET gapSum == msgs[Len(msgs)].timestamp - msgs[1].timestamp
           n == Len(msgs) - 1
           byGap == IF gapSum < 60000 * n \/ gapSum > oneHour * n THEN 1 ELSE 0
           participants == {msgs[i].sender : i \in 1..Len(msgs)}
           bySenders == IF Cardinality(participants) = 1
                           \/ Cardinality(participants) > 3
                        THEN 1 ELSE 0
       IN Min(byGap + bySenders, MaxItems)

\* One item per line and indicator the line contains; the content after
\* the colon keeps its leading blank.
RECURSIVE ActionItemCount(_)
ActionItemCount(text) ==
  IF text = <<>> THEN 0
  ELSE LET c == Head(text).content
           length == ContentLength(c) + 1
           hits == Cardinality({ind \in actionIndicators: IncludesPhrase(c.words, ind)})
       IN (IF length > 20 /\ length < 100 THEN hits ELSE 0)
          + ActionItemCount(Tail(text))

extractActionItemsHeuristic(text) == Min(ActionItemCount(text), MaxItems)

(***************************************************************************)
(* Providers.  A call to an adapter ends in one of these ways.             *)
(***************************************************************************)
Providers == {"gemini", "gpt", "hf"}
Capabilities ==
  {"summary", "sentiment", "keyTopics", "insights", "patterns", "actionItems", "priority"}

\* Gemini and GPT: a usable text, a text of at most 10 characters, a
\* non-2xx status, a rejected fetch, a 200 body without the expected fields.
TextOutcomes == {"ok", "short", "http", "abort", "malformed"}
\* The Hugging Face route: 200 with a JSON body, a non-2xx status (429,
\* 503, ...), the 10 s abort or a network error, 200 with a body that is
\* not JSON.
HFOutcomes == {"ok", "http", "abort", "badjson"}
\* What the JSON body of the route holds when it answers 200: a result the
\* caller can use, a result whose text fails the caller's checks, or no
\* result field at all.
HFQualities == {"usable", "unusable", "noresult"}

\* What Gemini answers to the whole-analysis prompt when the call succeeds:
\* a JSON object (arrays of n items, the two labels as given), free text
\* without any JSON object, or a candidate without text.
GeminiBodies ==
  { [kind |-> "json", n |-> 2, sentiment |-> "positive", priority |-> "low"],
    [kind |-> "json", n |-> 0, sentiment |-> "negative", priority |-> "high"],
    [kind |-> "json", n |-> MaxGeminiItems, sentiment |-> "mixed", priority |-> "urgent"],
    [kind |-> "text", n |-> 0, sentiment |-> "negative", priority |-> "high"],
    [kind |-> "notext", n |-> 0, sentiment |-> "neutral", priority |-> "medium"] }

VARIABLES
  cfg,          \* which API keys are configured: [gemini, gpt, hf]
  hfQuality,    \* what the Hugging Face route answers when it answers 200
  hfFailed,     \* MessageMindAI.hfFailed
  messages,     \* the caller's message array
  given,        \* the caller's array as it was when the call started
  op,           \* the call in progress: "daily", "kb", "prioritize" or "none"
  pc,           \* position of the call in progress
  units,        \* the groups the call works through
  idx,          \* index of the group in progress
  cur,          \* the result under construction for that group
  summaries,    \* generateDailySummary: results so far, then the returned list
  knowledge,    \* createKnowledgeBase: the entries so far
  prioritized,  \* prioritizeMessages: the returned list
  calls,        \* the providers called by the call in progress
  lateHfCall,   \* a Hugging Face call was issued with hfFailed already set
  hfFailedOnAbort  \* hfFailed was set by a call that was aborted or never connected

\* The vector index (MessageMindVectorStorage) and its calls.
VARIABLES
  vectors,      \* MessageMindVectorStorage.vectors
  adds,         \* the addMessages calls: position and validMessages of each
  submitted,    \* per id, how many messages passed the filter of their call so far
  overlapped,   \* an addMessages call started while another awaited its embeddings
  read,         \* the last semanticSearch / findSimilarMessages / getStats call
  cleared       \* clear() has run: "no", or "quiet" / "busy" (an addMessages awaiting)

aiVars == <<cfg, hfQuality, hfFailed, messages, given, op, pc, units, idx, cur,
            summaries, knowledge, prioritized, calls, lateHfCall, hfFailedOnAbort>>

indexVars == <<vectors, adds, submitted, overlapped, read, cleared>>

VARIABLES
  retry,        \* GeminiAI.callGeminiWithRetry: the call in progress
  heur,         \* calculatePriorityHeuristic: the arguments and the result
  embed,        \* the embeddings handler: the request and the response
  decode,       \* the decoding of a Gemini response text
  matrix        \* MessageMindMatrix: the client and its start() calls

auxVars == <<retry, heur, embed, decode, matrix>>

vars == <<aiVars, indexVars, auxVars>>

Configured == {p \in Providers: cfg[p]}

\* gemini.isAvailable() / gpt.isAvailable(): the adapter exists and has a key.
GeminiAvailable == cfg["gemini"]
GPTAvailable == cfg["gpt"]

\* The guard of every Hugging Face block: useApiRoute && hfApiKey && !hfFailed.
HFEnabled(failed) == cfg["hf"] /\ ~failed

\* The guard of the heuristics-only branch of generateDailySummary.
HeuristicsOnly(failed) == (failed \/ ~cfg["hf"]) /\ ~cfg["gpt"]

NoSource == [k \in Capabilities |-> "none"]
NoTried == [k \in Capabilities |-> {}]
EmptyResult ==
  [roomName |-> "", messageCount |-> 0, sentiment |-> "neutral", priority |-> "medium",
   keyTopics |-> 0, insights |-> 0, patterns |-> 0, actionItems |-> 0,
   src |-> NoSource, tried |-> NoTried]

WithIds(s) == [i \in 1..Len(s) |-> [s[i] EXCEPT !.id = i]]

Message(r, t, c) ==
  [id |-> 0, roomName |-> r, sender |-> r, timestamp |-> t, content |-> c]

\* The messages generateDailySummary is given: two rooms, requests and urgent
\* messages of the target day, a short message of the next day.
DayPool ==
  { Message("Ann", 0, RequestContent), Message("Ann", 0, UrgentContent),
    Message("Bob", 0, UrgentContent), Message("Bob", oneDay, ShortContent) }

ListsOver(pool, max) == UNION {[1..n -> pool] : n \in 0..max}

(***************************************************************************)
(* MessageMindVectorStorage (src/lib/geminiAI.ts): the messages it is      *)
(* given, the two content filters, the embeddings and their similarity.    *)
(* A content has, besides its words, a flag for leading white space.  An   *)
(* embedding is its length and its leading components, the others being 0. *)
(***************************************************************************)
MinContent == 3
Dimension == 384
\* A length the embedding model of the route may answer with instead.
OtherDimension == 2 * Dimension

GreetingContent == [lead |-> FALSE, words |-> <<"hello", "there">>, qmarks |-> 0]
MeetingContent == [lead |-> FALSE, words |-> <<"meeting", "at", "noon">>, qmarks |-> 0]
LeadBangContent == [lead |-> TRUE, words |-> <<"!login", "now">>, qmarks |-> 0]
TinyContent == [lead |-> FALSE, words |-> <<"ok">>, qmarks |-> 0]
BridgeContent ==
  [lead |-> FALSE, words |-> <<"WhatsApp", "bridge", "bot", "connected">>, qmarks |-> 0]
QueryContent == [lead |-> FALSE, words |-> <<"lunch", "plans">>, qmarks |-> 0]

\* The messages handed to the index, each with its id.
IndexPool ==
  { [id |-> 1, content |-> GreetingContent], [id |-> 2, content |-> MeetingContent],
    [id |-> 3, content |-> LeadBangContent], [id |-> 4, content |-> TinyContent],
    [id |-> 5, content |-> BridgeContent] }

Queries == {QueryContent}

\* content.trim().startsWith('!')
StartsWithBang(c) == Len(c.words) > 0 /\ c.words[1] = "!login"

IsBridgeNotice(c) ==
  \/ IncludesPhrase(c.words, <<"bridged">>)
  \/ IncludesPhrase(c.words, <<"WhatsApp", "bridge", "bot">>)

\* The filter of addMessages, on the trimmed content.
BatchAccepts(c) ==
  /\ ContentLength(c) >= MinContent
  /\ ~StartsWithBang(c)
  /\ ~IsBridgeNotice(c)

\* The two early returns of addMessage: startsWith on the content as given,
\* the length on the trimmed content.
SingleAccepts(c) ==
  /\ ~((~c.lead /\ StartsWithBang(c)) \/ IsBridgeNotice(c))
  /\ ContentLength(c) >= MinContent

ValidMessages(batch) == SelectSeq(batch, LAMBDA m: BatchAccepts(m.content))

Vec(d, v, f) == [kind |-> "vector", dim |-> d, v |-> v, for |-> f]
\* embeddings[index] past the end of the answer.
Undefined == [kind |-> "undefined", dim |-> 0, v |-> <<>>, for |-> 0]

\* What the embedding model answers for a text.
ModelVector(c) ==
  CASE c = GreetingContent -> <<-3, 4, 0, 0>>
    [] c = MeetingContent -> <<1, 1, 0, 0>>
    [] OTHER -> <<1, 1, 1, 1>>

\* Array(384).fill(0).map(() => Math.random() - 0.5): any vector.
MockVectors == {<<1, -1, 1, 1>>, <<-1, 1, 0, 0>>}

\* The answers of the embeddings route: 200 with one vector per text, with
\* vectors of another length, with one vector too few; a non-2xx status, a
\* network error, a body that is not JSON, a body without embeddings.
EmbedOutcomes ==
  {"ok", "wrongdim", "fewer", "http", "network", "badjson", "noembeddings"}

RouteFails(o) == o \in {"http", "network", "badjson", "noembeddings"}

\* The fallback of generateEmbeddings and generateEmbedding.
MockEmbedding(m, mock) == Vec(Dimension, mock, m.id)

\* generateEmbeddings without its catch: nothing for a failed request.
generateEmbeddingsNoFallback(msgs, o, mock) ==
  IF RouteFails(o) THEN <<>>
  ELSE [i \in 1..Len(msgs) |-> Vec(Dimension, ModelVector(msgs[i].content), msgs[i].id)]

\* generateEmbeddings(texts): data.embeddings as answered, or the mocks.
generateEmbeddings(msgs, o, mock) ==
  IF RouteFails(o)
  THEN [i \in 1..Len(msgs) |-> MockEmbedding(msgs[i], mock[i])]
  ELSE [i \in 1..(IF o = "fewer" THEN Len(msgs) - 1 ELSE Len(msgs)) |->
          Vec(IF o = "wrongdim" THEN OtherDimension ELSE Dimension,
              ModelVector(msgs[i].content), msgs[i].id)]

\* generateEmbedding(text): data.embeddings[0]; reading the length of a
\* missing one throws into the catch, which falls back to the mock.
generateEmbedding(m, o, mock) ==
  IF RouteFails(o) \/ o = "fewer" THEN MockEmbedding(m, mock)
  ELSE Vec(IF o = "wrongdim" THEN OtherDimension ELSE Dimension,
           ModelVector(m.content), m.id)

EmbeddingAt(embeddings, i) ==
  IF i <= Len(embeddings) THEN embeddings[i] ELSE Undefined

\* cosineSimilarity as the fraction num / sqrt(den2); 0 is 0 / sqrt(1).
RECURSIVE Dot(_, _)
Dot(a, b) == IF a = <<>> THEN 0 ELSE Head(a) * Head(b) + Dot(Tail(a), Tail(b))

cosineSimilarity(a, b) ==
  IF a.dim # b.dim \/ Dot(a.v, a.v) * Dot(b.v, b.v) = 0
  THEN [num |-> 0, den2 |-> 1]
  ELSE [num |-> Dot(a.v, b.v), den2 |-> Dot(a.v, a.v) * Dot(b.v, b.v)]

\* b.length of a missing embedding throws a TypeError.
SimilarityThrows(a, b) == a.kind = "undefined" \/ b.kind = "undefined"

Signed2(x) == IF x.num < 0 THEN 0 - x.num * x.num ELSE x.num * x.num
\* x > y for two similarities.
SimGreater(x, y) == Signed2(x) * y.den2 > Signed2(y) * x.den2
\* similarity > 0.1
AboveFloor(x) == x.num > 0 /\ 100 * x.num * x.num > x.den2

AddCalls == {1, 2}
PoolIds == {m.id : m \in IndexPool}

\* How many messages of the sequence have the id.
Count(msgs, id) == Cardinality({i \in 1..Len(msgs): msgs[i].id = id})
NoRead == [op |-> "none", outcome |-> "none", embedded |-> FALSE, query |-> Undefined,
           limit |-> 0, results |-> <<>>, total |-> 0]

\* A new MessageMindVectorStorage.
IndexFresh ==
  /\ vectors = <<>>
  /\ adds = [c \in AddCalls |-> [pc |-> "idle", valid |-> <<>>]]
  /\ submitted = [id \in PoolIds |-> 0]
  /\ overlapped = FALSE
  /\ read = NoRead
  /\ cleared = "no"

\* A fresh MessageMindAI and a caller holding a message list.
(***************************************************************************)
(* GeminiAI.callGeminiWithRetry (src/pages/api/ai/geminiAI.ts): the state  *)
(* of one call.                                                            *)
(***************************************************************************)
RetryAttempts == 3
BackoffBase == 200

\* The methods that call callGeminiWithRetry; none passes attempts.
RetryCallers ==
  {"summarizeConversation", "generateDailySummary", "analyzeMessagePriority",
   "extractTopics", "generateInsights"}

\* callGemini: a response, or a throw on a non-2xx status, on a rejected
\* fetch, on a body without candidates.
CallGeminiOutcomes == {"ok", "http", "network", "invalid"}

RECURSIVE Pow2(_)
Pow2(n) == IF n = 0 THEN 1 ELSE 2 * Pow2(n - 1)

NoRetry == [pc |-> "idle", caller |-> "none", attempt |-> 0, calls |-> 0,
            errors |-> <<>>, waits |-> <<>>, result |-> "none"]

NoHeur == [n |-> 0, stamp |-> 0, content |-> ShortContent, room |-> "none",
           priority |-> "none"]

NoEmbed == [pc |-> "idle"]
NoDecode == [pc |-> "idle"]
\* The start() calls that may be in progress at once.
StartCalls == 1..MaxStartCalls

\* MessageMindMatrix after its constructor: isStarted, the position of each
\* start() call, the start() calls whose startClient was invoked since the
\* last stop() and has not failed, whether a startClient has completed since
\* the last stop(), the value of isStarted when a start() last failed, what
\* the last stop() did, and the number of startClient invocations so far.
NoMatrix ==
  [isStarted |-> FALSE, start |-> [c \in StartCalls |-> "idle"], live |-> {},
   succeeded |-> FALSE, failedLeft |-> "none", lastStop |-> "none", invoked |-> 0]

AuxFresh ==
  /\ retry = NoRetry
  /\ heur = NoHeur
  /\ embed = NoEmbed
  /\ decode = NoDecode
  /\ matrix = NoMatrix

Fresh ==
  /\ hfFailed = FALSE
  /\ given = messages
  /\ op = "none"
  /\ pc = "idle"
  /\ units = <<>>
  /\ idx = 0
  /\ cur = EmptyResult
  /\ summaries = <<>>
  /\ knowledge = <<>>
  /\ prioritized = <<>>
  /\ calls = {}
  /\ lateHfCall = FALSE
  /\ hfFailedOnAbort = FALSE
  /\ IndexFresh
  /\ AuxFresh

Init ==
  /\ cfg \in [Providers -> BOOLEAN]
  /\ hfQuality \in HFQualities
  /\ (~cfg["hf"] => hfQuality = "usable")
  /\ \E s \in ListsOver(DayPool, MaxDayMsgs): messages = WithIds(s)
  /\ Fresh

(***************************************************************************)
(* generateDailySummary.                                                   *)
(***************************************************************************)
Unit == units[idx]
Text == formatMessagesForAI(Unit)

\* generateDailySummary(messages, date): group the messages of the date by
\* room and start with the first room.
DailyStart ==
  /\ pc = "idle"
  /\ \E date \in Dates:
       units' = groupMessagesByRoom(messages, date)
  /\ given' = messages
  /\ idx' = 1
  /\ op' = "daily"
  /\ pc' = "unit"
  /\ summaries' = <<>>
  /\ calls' = {}
  /\ lateHfCall' = FALSE
  /\ UNCHANGED hfFailedOnAbort
  /\ cur' = EmptyResult
  /\ UNCHANGED indexVars
  /\ UNCHANGED auxVars
  /\ UNCHANGED <<cfg, hfQuality, hfFailed, messages, knowledge, prioritized>>

HeuristicResult(unit, text) ==
  [roomName |-> unit[1].roomName, messageCount |-> Len(unit),
   sentiment |-> generateSentimentAnalysis(text),
   priority |-> calculatePriorityHeuristic(text, unit),
   keyTopics |-> generateTopicsNaturally(text),
   insights |-> generateContextualInsights(text, unit),
   patterns |-> analyzeConversationPatterns(unit),
   actionItems |-> extractActionItemsHeuristic(text),
   src |-> [k \in Capabilities |-> "heuristic"],
   tried |-> NoTried]

\* Where the loop goes after a result was pushed (continue).
NextUnit == IF idx < Len(units) THEN "unit" ELSE "sort"

Push(result) ==
  /\ summaries' = Append(summaries, result)
  /\ idx' = IF idx < Len(units) THEN idx + 1 ELSE idx
  /\ pc' = NextUnit
  /\ cur' = EmptyResult

\* The loop is over when there is no (further) room.
DailyNoUnit ==
  /\ pc = "unit"
  /\ Len(units) = 0
  /\ pc' = "sort"
  /\ UNCHANGED indexVars
  /\ UNCHANGED auxVars
  /\ UNCHANGED <<cfg, hfQuality, hfFailed, messages, given, op, units, idx, cur,
                 summaries, knowledge, prioritized, calls, lateHfCall, hfFailedOnAbort>>

\* Lines 131-142: with no usable Hugging Face and no GPT every field comes
\* from the heuristics.
UnitHeuristicsOnly ==
  /\ pc = "unit"
  /\ Len(units) > 0
  /\ HeuristicsOnly(hfFailed)
  /\ Push(HeuristicResult(Unit, Text))
  /\ UNCHANGED indexVars
  /\ UNCHANGED auxVars
  /\ UNCHANGED <<cfg, hfQuality, hfFailed, messages, given, op, units, knowledge,
                 prioritized, calls, lateHfCall, hfFailedOnAbort>>

(***************************************************************************)
(* GeminiAI.generateDailySummary (src/lib/geminiAI.ts): one call, then the *)
(* first {...} of the answer is parsed; arrays are taken as they are, the  *)
(* two labels are replaced by a default when they are not of the enum.     *)
(***************************************************************************)
Sentiments == {"positive", "neutral", "negative"}
Priorities == {"high", "medium", "low"}

GeminiCallOutcomes == {"ok", "http", "abort", "malformed"}

GeminiThrows(o, body) == o # "ok" \/ body.kind = "notext"

GeminiAnalysis(body) ==
  IF body.kind = "json"
  THEN [sentiment |-> IF body.sentiment \in Sentiments THEN body.sentiment ELSE "neutral",
        priority |-> IF body.priority \in Priorities THEN body.priority ELSE "medium",
        keyTopics |-> body.n, insights |-> body.n, patterns |-> body.n,
        actionItems |-> body.n]
  ELSE \* parseAnalysisFromText
       [sentiment |-> body.sentiment, priority |-> body.priority,
        keyTopics |-> 0, insights |-> 0, patterns |-> 0, actionItems |-> 0]

\* The catch of line 162 rethrowing instead of falling through.
OnGeminiFailureRethrow == "raised"

\* Line 162: the catch around the Gemini analysis logs and falls through
\* to the per-capability path.
OnGeminiFailure == "summaryGemini"

StartResult(unit) ==
  [EmptyResult EXCEPT !.roomName = unit[1].roomName, !.messageCount = Len(unit)]

\* Lines 145-165.
UnitGemini ==
  /\ pc = "unit"
  /\ Len(units) > 0
  /\ ~HeuristicsOnly(hfFailed)
  /\ GeminiAvailable
  /\ calls' = calls \cup {"gemini"}
  /\ \E o \in GeminiCallOutcomes, body \in GeminiBodies:
       IF GeminiThrows(o, body)
       THEN /\ pc' = OnGeminiFailure
            /\ cur' = [StartResult(Unit) EXCEPT
                         !.tried = [k \in Capabilities |-> {"gemini"}]]
            /\ UNCHANGED <<summaries, idx>>
       ELSE LET a == GeminiAnalysis(body)
            IN Push([roomName |-> Unit[1].roomName, messageCount |-> Len(Unit),
                     sentiment |-> a.sentiment, priority |-> a.priority,
                     keyTopics |-> a.keyTopics, insights |-> a.insights,
                     patterns |-> a.patterns, actionItems |-> a.actionItems,
                     src |-> [k \in Capabilities |-> "gemini"],
                     tried |-> [k \in Capabilities |-> {"gemini"}]])
  /\ UNCHANGED indexVars
  /\ UNCHANGED auxVars
  /\ UNCHANGED <<cfg, hfQuality, hfFailed, messages, given, op, units, knowledge,
                 prioritized, lateHfCall, hfFailedOnAbort>>

\* No Gemini adapter: straight to the per-capability path.
UnitNoGemini ==
  /\ pc = "unit"
  /\ Len(units) > 0
  /\ ~HeuristicsOnly(hfFailed)
  /\ ~GeminiAvailable
  /\ pc' = "summaryGemini"
  /\ cur' = StartResult(Unit)
  /\ UNCHANGED indexVars
  /\ UNCHANGED auxVars
  /\ UNCHANGED <<cfg, hfQuality, hfFailed, messages, given, op, units, idx, summaries,
                 knowledge, prioritized, calls, lateHfCall, hfFailedOnAbort>>

(***************************************************************************)
(* generateSummary: Gemini, then GPT, then the Hugging Face models, then   *)
(* the local summary.                                                      *)
(***************************************************************************)
\* generateDailySummary goes on with the sentiment, createKnowledgeBase with
\* the topics and then the insights.
AfterSummary == IF op = "daily" THEN "sentiment" ELSE "topics"
AfterInsights == IF op = "daily" THEN "patterns" ELSE "entry"

Took(k, source) == [cur EXCEPT !.src[k] = source]
Tried(r, k, p) == [r EXCEPT !.tried[k] = @ \cup {p}]

\* generateSummary is given the message array by generateDailySummary and
\* the formatted text by createKnowledgeBase; from a text the adapters are
\* asked only when it has a line.
HasInput == op = "daily" \/ Len(Text) > 0

\* Lines 202-231.
SummaryGemini ==
  /\ pc = "summaryGemini"
  /\ \/ /\ GeminiAvailable /\ HasInput
        /\ calls' = calls \cup {"gemini"}
        /\ \E o \in TextOutcomes:
             IF o = "ok"
             THEN /\ cur' = Tried(Took("summary", "gemini"), "summary", "gemini")
                  /\ pc' = AfterSummary
             ELSE /\ cur' = Tried(cur, "summary", "gemini")
                  /\ pc' = "summaryGPT"
     \/ /\ ~(GeminiAvailable /\ HasInput)
        /\ pc' = "summaryGPT"
        /\ UNCHANGED <<cur, calls>>
  /\ UNCHANGED indexVars
  /\ UNCHANGED auxVars
  /\ UNCHANGED <<cfg, hfQuality, hfFailed, messages, given, op, units, idx, summaries,
                 knowledge, prioritized, lateHfCall, hfFailedOnAbort>>

\* Lines 234-263.
SummaryGPT ==
  /\ pc = "summaryGPT"
  /\ \/ /\ GPTAvailable /\ HasInput
        /\ calls' = calls \cup {"gpt"}
        /\ \E o \in TextOutcomes:
             IF o = "ok"
             THEN /\ cur' = Tried(Took("summary", "gpt"), "summary", "gpt")
                  /\ pc' = AfterSummary
             ELSE /\ cur' = Tried(cur, "summary", "gpt")
                  /\ pc' = "summaryHF"
     \/ /\ ~(GPTAvailable /\ HasInput)
        /\ pc' = "summaryHF"
        /\ UNCHANGED <<cur, calls>>
  /\ UNCHANGED indexVars
  /\ UNCHANGED auxVars
  /\ UNCHANGED <<cfg, hfQuality, hfFailed, messages, given, op, units, idx, summaries,
                 knowledge, prioritized, lateHfCall, hfFailedOnAbort>>

\* callHuggingFaceAPI: every failure (non-2xx, a body that is not JSON, an
\* abort or network error) sets hfFailed and throws.
HFThrows(o) == o # "ok"

\* One call of callHuggingFaceAPI entered in the books of a block:
\* [done, src, failed, late, onAbort]; late: a call was issued with
\* hfFailed set; onAbort: the call that set hfFailed was aborted.
HFCalled(b, o) ==
  [b EXCEPT !.late = @ \/ b.failed,
            !.onAbort = @ \/ (~b.failed /\ o = "abort"),
            !.failed = @ \/ HFThrows(o)]

HFBlock(failed) == [done |-> FALSE, src |-> "heuristic", failed |-> failed,
                    late |-> FALSE, onAbort |-> FALSE]

\* Lines 277-302: the summarization models, one after the other; a model
\* that fails or whose summary is unusable is skipped.
RECURSIVE SummaryModels(_, _, _)
SummaryModels(oh, i, b) ==
  IF i > 3 \/ b.done THEN b
  ELSE LET c == HFCalled(b, oh[i])
       IN IF oh[i] = "ok" /\ hfQuality = "usable"
          THEN [c EXCEPT !.done = TRUE, !.src = "hf"]
          ELSE SummaryModels(oh, i + 1, c)

\* Lines 304-336: the text-generation call after the models; whatever is
\* thrown here (the call failing, a body without result) sets hfFailed.
SummaryGeneration(o, b) ==
  IF b.done THEN b
  ELSE LET c == HFCalled(b, o)
       IN IF o = "ok" /\ hfQuality = "usable" THEN [c EXCEPT !.done = TRUE, !.src = "hf"]
          ELSE IF o = "ok" /\ hfQuality = "noresult" THEN [c EXCEPT !.failed = TRUE]
          ELSE c

HFSummary(oh, failed) == SummaryGeneration(oh[4], SummaryModels(oh, 1, HFBlock(failed)))

\* Lines 266-339.
SummaryHF ==
  /\ pc = "summaryHF"
  /\ \/ /\ HFEnabled(hfFailed)
        /\ \E oh \in [1..4 -> HFOutcomes]:
             LET b == HFSummary(oh, hfFailed)
             IN /\ cur' = Tried(Took("summary", b.src), "summary", "hf")
                /\ hfFailed' = b.failed
                /\ calls' = calls \cup {"hf"}
                /\ lateHfCall' = (lateHfCall \/ b.late)
                /\ hfFailedOnAbort' = (hfFailedOnAbort \/ b.onAbort)
     \/ /\ ~HFEnabled(hfFailed)
        /\ cur' = Took("summary", "heuristic")
        /\ UNCHANGED <<hfFailed, calls, lateHfCall, hfFailedOnAbort>>
  /\ pc' = AfterSummary
  /\ UNCHANGED indexVars
  /\ UNCHANGED auxVars
  /\ UNCHANGED <<cfg, hfQuality, messages, given, op, units, idx, summaries,
                 knowledge, prioritized>>

(***************************************************************************)
(* The capabilities that have a Hugging Face block only.                   *)
(***************************************************************************)
\* Lines 499-523: the sentiment models, one after the other; the first one
\* that answers with a result decides, whatever its label.
RECURSIVE SentimentModels(_, _, _)
SentimentModels(oh, i, b) ==
  IF i > 2 \/ b.done THEN b
  ELSE LET c == HFCalled(b, oh[i])
       IN IF oh[i] = "ok" /\ hfQuality # "noresult"
          THEN [c EXCEPT !.done = TRUE, !.src = "hf"]
          ELSE SentimentModels(oh, i + 1, c)

\* The label of a usable answer maps to positive, an empty one to neutral.
HFSentimentLabel == IF hfQuality = "usable" THEN "positive" ELSE "neutral"

\* analyzeSentiment.
Sentiment ==
  /\ pc = "sentiment"
  /\ \/ /\ HFEnabled(hfFailed)
        /\ \E oh \in [1..2 -> HFOutcomes]:
             LET b == SentimentModels(oh, 1, HFBlock(hfFailed))
                 r == Tried(Took("sentiment", b.src), "sentiment", "hf")
             IN /\ cur' = [r EXCEPT !.sentiment =
                             IF b.done THEN HFSentimentLabel
                             ELSE generateSentimentAnalysis(Text)]
                /\ hfFailed' = b.failed
                /\ calls' = calls \cup {"hf"}
                /\ lateHfCall' = (lateHfCall \/ b.late)
                /\ hfFailedOnAbort' = (hfFailedOnAbort \/ b.onAbort)
     \/ /\ ~HFEnabled(hfFailed)
        /\ cur' = [Took("sentiment", "heuristic") EXCEPT
                     !.sentiment = generateSentimentAnalysis(Text)]
        /\ UNCHANGED <<hfFailed, calls, lateHfCall, hfFailedOnAbort>>
  /\ pc' = "topics"
  /\ UNCHANGED indexVars
  /\ UNCHANGED auxVars
  /\ UNCHANGED <<cfg, hfQuality, messages, given, op, units, idx, summaries,
                 knowledge, prioritized>>

\* extractListFromGenerated: at most 3 items of the generated text.
extractListFromGenerated == IF hfQuality = "usable" THEN MaxItems ELSE 0

\* One text-generation call of a capability: [done, src, failed, late];
\* done when the call returned a body with a result.
HFSingle(o, failed) ==
  LET c == HFCalled(HFBlock(failed), o)
  IN IF o = "ok" /\ hfQuality # "noresult"
     THEN [c EXCEPT !.done = TRUE, !.src = "hf"] ELSE c

\* A capability with one Hugging Face call.  keepEmpty: the list of the
\* answer is returned even when it is empty (extractTopics,
\* extractActionItems); otherwise an empty list falls back to the heuristic.
SingleCall(k, keepEmpty, limit, heuristic, next) ==
  /\ \/ /\ HFEnabled(hfFailed)
        /\ \E o \in HFOutcomes:
             LET b == HFSingle(o, hfFailed)
                 n == Min(extractListFromGenerated, limit)
                 fromHF == b.done /\ (keepEmpty \/ n > 0)
                 r == Tried(Took(k, IF fromHF THEN "hf" ELSE "heuristic"), k, "hf")
             IN /\ cur' = [r EXCEPT ![k] = IF fromHF THEN n ELSE heuristic]
                /\ hfFailed' = b.failed
                /\ calls' = calls \cup {"hf"}
                /\ lateHfCall' = (lateHfCall \/ b.late)
                /\ hfFailedOnAbort' = (hfFailedOnAbort \/ b.onAbort)
     \/ /\ ~HFEnabled(hfFailed)
        /\ cur' = [Took(k, "heuristic") EXCEPT ![k] = heuristic]
        /\ UNCHANGED <<hfFailed, calls, lateHfCall, hfFailedOnAbort>>
  /\ pc' = next
  /\ UNCHANGED indexVars
  /\ UNCHANGED auxVars
  /\ UNCHANGED <<cfg, hfQuality, messages, given, op, units, idx, summaries,
                 knowledge, prioritized>>

\* extractTopics.
Topics ==
  /\ pc = "topics"
  /\ SingleCall("keyTopics", TRUE, MaxTopics, generateTopicsNaturally(Text), "insights")

\* generateInsights.
Insights ==
  /\ pc = "insights"
  /\ SingleCall("insights", FALSE, MaxItems, generateContextualInsights(Text, Unit),
                AfterInsights)

\* identifyPatterns.
Patterns ==
  /\ pc = "patterns"
  /\ SingleCall("patterns", FALSE, MaxItems, analyzeConversationPatterns(Unit),
                "actionItems")

\* extractActionItems.
ActionItems ==
  /\ pc = "actionItems"
  /\ SingleCall("actionItems", TRUE, MaxItems, extractActionItemsHeuristic(Text),
                "priority")

\* The generated text of a usable answer rates the conversation "urgent";
\* an empty one rates it medium.
HFPriorityLabel == IF hfQuality = "usable" THEN "high" ELSE "medium"

\* calculatePriorityGenerative, then the push of the result (line 188).
Priority ==
  /\ pc = "priority"
  /\ \/ /\ HFEnabled(hfFailed)
        /\ \E o \in HFOutcomes:
             LET b == HFSingle(o, hfFailed)
                 r == Tried(Took("priority", b.src), "priority", "hf")
             IN /\ Push([r EXCEPT !.priority =
                           IF b.done THEN HFPriorityLabel
                           ELSE calculatePriorityHeuristic(Text, Unit)])
                /\ hfFailed' = b.failed
                /\ calls' = calls \cup {"hf"}
                /\ lateHfCall' = (lateHfCall \/ b.late)
                /\ hfFailedOnAbort' = (hfFailedOnAbort \/ b.onAbort)
     \/ /\ ~HFEnabled(hfFailed)
        /\ Push([Took("priority", "heuristic") EXCEPT
                   !.priority = calculatePriorityHeuristic(Text, Unit)])
        /\ UNCHANGED <<hfFailed, calls, lateHfCall, hfFailedOnAbort>>
  /\ UNCHANGED indexVars
  /\ UNCHANGED auxVars
  /\ UNCHANGED <<cfg, hfQuality, messages, given, op, units, knowledge, prioritized>>

(***************************************************************************)
(* The return of generateDailySummary: the results sorted by priority      *)
(* weight, highest first; Array.prototype.sort is stable.                  *)
(***************************************************************************)
getPriorityWeight(priority) ==
  CASE priority = "high" -> 3
    [] priority = "medium" -> 2
    [] priority = "low" -> 1
    [] OTHER -> 0

\* An insertion that puts a result before the results of equal weight.
RECURSIVE InsertByPriorityUnstable(_, _)
InsertByPriorityUnstable(s, x) ==
  IF s = <<>> THEN <<x>>
  ELSE IF getPriorityWeight(x.priority) >= getPriorityWeight(Head(s).priority)
  THEN <<x>> \o s
  ELSE <<Head(s)>> \o InsertByPriorityUnstable(Tail(s), x)

RECURSIVE InsertByPriority(_, _)
InsertByPriority(s, x) ==
  IF s = <<>> THEN <<x>>
  ELSE IF getPriorityWeight(x.priority) > getPriorityWeight(Head(s).priority)
  THEN <<x>> \o s
  ELSE <<Head(s)>> \o InsertByPriority(Tail(s), x)

RECURSIVE SortByPriority(_)
SortByPriority(s) ==
  IF s = <<>> THEN <<>>
  ELSE InsertByPriority(SortByPriority(SubSeq(s, 1, Len(s) - 1)), s[Len(s)])

\* Line 195.
DailyReturn ==
  /\ pc = "sort"
  /\ op = "daily"
  /\ summaries' = SortByPriority(summaries)
  /\ pc' = "done"
  /\ UNCHANGED indexVars
  /\ UNCHANGED auxVars
  /\ UNCHANGED <<cfg, hfQuality, hfFailed, messages, given, op, units, idx, cur,
                 knowledge, prioritized, calls, lateHfCall, hfFailedOnAbort>>

(***************************************************************************)
(* createKnowledgeBase: the caller's array is sorted in place and grouped, *)
(* then every group gets a summary, topics and insights.                   *)
(***************************************************************************)
\* Lines 920-922 with 969-999.
KBStart ==
  /\ pc = "idle"
  /\ given' = messages
  /\ messages' = SortByTimestamp(messages)
  /\ units' = groupMessagesByConversation(messages')
  /\ op' = "kb"
  /\ idx' = 1
  /\ pc' = IF Len(units') > 0 THEN "summaryGemini" ELSE "done"
  /\ cur' = IF Len(units') > 0 THEN StartResult(units'[1]) ELSE EmptyResult
  /\ knowledge' = <<>>
  /\ calls' = {}
  /\ lateHfCall' = FALSE
  /\ UNCHANGED hfFailedOnAbort
  /\ UNCHANGED indexVars
  /\ UNCHANGED auxVars
  /\ UNCHANGED <<cfg, hfQuality, hfFailed, summaries, prioritized>>

\* Lines 931-945: the entry of the group, then the next group or the return.
KBEntry ==
  /\ pc = "entry"
  /\ knowledge' = Append(knowledge,
                         [roomName |-> Unit[1].roomName, messageCount |-> Len(Unit),
                          rawMessages |-> [i \in 1..Len(Unit) |-> Unit[i].id],
                          src |-> cur.src])
  /\ IF idx < Len(units)
     THEN /\ idx' = idx + 1
          /\ pc' = "summaryGemini"
          /\ cur' = StartResult(units[idx + 1])
     ELSE /\ pc' = "done"
          /\ UNCHANGED <<idx, cur>>
  /\ UNCHANGED indexVars
  /\ UNCHANGED auxVars
  /\ UNCHANGED <<cfg, hfQuality, hfFailed, messages, given, op, units, summaries,
                 prioritized, calls, lateHfCall, hfFailedOnAbort>>

(***************************************************************************)
(* prioritizeMessages: a copy of the list with a score per message, sorted *)
(* by score, highest first.  Scores are kept as multiples of 10/oneDay.    *)
(***************************************************************************)
Max(a, b) == IF a > b THEN a ELSE b

HasAny(c, phrases) == \E ph \in phrases: IncludesPhrase(c.words, ph)
CountOf(c, phrases) == Cardinality({ph \in phrases: IncludesPhrase(c.words, ph)})

\* One point of score.
Point == oneDay \div 10

Recency(m) == Max(0, oneDay - (Now - m.timestamp))

\* The words written with capitals in the messages prioritizeMessages is given.
LowerCaseOf(w) == IF w = "URGENT" THEN "urgent" ELSE w

\* The content as given.
keepCase(c) == c

\* message.content.toLowerCase()
toLowerCase(c) == [c EXCEPT !.words = [i \in 1..Len(c.words) |-> LowerCaseOf(c.words[i])]]

calculateMessagePriority(m) ==
  LET content == toLowerCase(m.content)
  IN Recency(m)
     + Point * ( (IF content.qmarks > 0 THEN 5 ELSE 0)
                + (IF HasAny(content, {<<"urgent">>, <<"important">>}) THEN 15 ELSE 0)
                + (IF HasAny(content, {<<"please">>, <<"help">>}) THEN 8 ELSE 0)
                + (IF ContentLength(content) > 100 THEN 3 ELSE 0) )

urgentKeywords ==
  {<<"urgent">>, <<"asap">>, <<"emergency">>, <<"immediately">>, <<"important">>,
   <<"critical">>, <<"help">>}
questionKeywords ==
  {<<"what">>, <<"how">>, <<"when">>, <<"where">>, <<"why">>, <<"can", "you">>,
   <<"could", "you">>}
actionKeywords == {<<"please">>, <<"need">>, <<"require">>, <<"must">>, <<"should">>}

calculateMessagePriorityWithGemini(m) ==
  LET content == toLowerCase(m.content)
  IN Recency(m)
     + Point * ( 15 * CountOf(content, urgentKeywords)
                + 8 * (CountOf(content, questionKeywords)
                       + (IF content.qmarks > 0 THEN 1 ELSE 0))
                + 5 * CountOf(content, actionKeywords)
                + (IF ContentLength(content) > 100 THEN 3 ELSE 0)
                + (IF Len(content.words) > 20 THEN 2 ELSE 0) )

MessageScore(m) ==
  IF GeminiAvailable THEN calculateMessagePriorityWithGemini(m)
  ELSE calculateMessagePriority(m)

RECURSIVE InsertByScore(_, _)
InsertByScore(s, x) ==
  IF s = <<>> THEN <<x>>
  ELSE IF MessageScore(x) > MessageScore(Head(s)) THEN <<x>> \o s
  ELSE <<Head(s)>> \o InsertByScore(Tail(s), x)

RECURSIVE SortByScore(_)
SortByScore(s) ==
  IF s = <<>> THEN <<>>
  ELSE InsertByScore(SortByScore(SubSeq(s, 1, Len(s) - 1)), s[Len(s)])

\* Lines 897-914: map makes a new array, which is the one sorted.
Prioritize ==
  /\ pc = "idle"
  /\ given' = messages
  /\ prioritized' = SortByScore(messages)
  /\ op' = "prioritize"
  /\ pc' = "done"
  /\ UNCHANGED indexVars
  /\ UNCHANGED auxVars
  /\ UNCHANGED <<cfg, hfQuality, hfFailed, messages, units, idx, cur, summaries,
                 knowledge, calls, lateHfCall, hfFailedOnAbort>>

\* The messages createKnowledgeBase and prioritizeMessages are given: two
\* rooms, time stamps with gaps of the window, of more than it, and ties.
SegPool == {Message(r, t, RequestContent) : r \in Rooms, t \in SegStamps}

KBConfigs == {[p \in Providers |-> FALSE], [p \in Providers |-> TRUE]}

InitKB ==
  /\ cfg \in KBConfigs
  /\ hfQuality = "usable"
  /\ \E s \in ListsOver(SegPool, MaxMsgs): messages = WithIds(s)
  /\ Fresh

NextKB ==
  \/ KBStart
  \/ SummaryGemini
  \/ SummaryGPT
  \/ SummaryHF
  \/ Topics
  \/ Insights
  \/ KBEntry
  \/ Prioritize

SpecKB == InitKB /\ [][NextKB]_vars

\* Messages as in testPrioritization: 'Hello there', a message whose only
\* keyword is 'URGENT' in capitals, and a long message without any of the
\* keywords; each sent now or a day and an hour ago.
HelloContent == [words |-> <<"hello", "there">>, qmarks |-> 0]
ShoutContent == [words |-> <<"URGENT", "call", "me", "today">>, qmarks |-> 0]
LongContent == [words |-> [i \in 1..21 |-> "quarterly"], qmarks |-> 0]

PrioritizePool ==
  {Message("Ann", t, c) : t \in {0, Now}, c \in {HelloContent, ShoutContent, LongContent}}

InitPrioritize ==
  /\ cfg \in KBConfigs
  /\ hfQuality = "usable"
  /\ \E s \in ListsOver(PrioritizePool, MaxMsgs): messages = WithIds(s)
  /\ Fresh

SpecPrioritize == InitPrioritize /\ [][Prioritize]_vars

(***************************************************************************)
(* MessageMindVectorStorage: addMessages, addMessage, semanticSearch,      *)
(* findSimilarMessages and getStats.  An addMessages call is suspended     *)
(* while it awaits generateEmbeddings; other calls run in between.         *)
(***************************************************************************)
FallbackLimit == 50

\* The index is explored up to MaxStored records; a batch and the limit of
\* a search go up to as many.
MaxBatch == MaxStored
MaxLimit == MaxStored

Entry(m, e) == [id |-> m.id, content |-> m.content, embedding |-> e]

\* The messages of the calls that await their embeddings.
Awaited == LET Sum[S \in SUBSET AddCalls] ==
                 IF S = {} THEN 0
                 ELSE LET c == CHOOSE x \in S: TRUE
                      IN Len(adds[c].valid) + Sum[S \ {c}]
           IN Sum[AddCalls]

\* The valid messages without the first one.
ValidOfButFirst(c) == Tail(adds[c].valid)

\* validMessages held in a field that the call started last overwrites.
ValidOfLatest(c) ==
  IF \E d \in AddCalls: d > c /\ adds[d].pc = "await"
  THEN adds[CHOOSE d \in AddCalls: d > c /\ adds[d].pc = "await"].valid
  ELSE adds[c].valid

\* validMessages is a local of the call.
ValidOf(c) == adds[c].valid

\* Lines 780-804: the filter, the return when nothing is left, and the
\* request for the embeddings of the batch.  The calls being alike, a new
\* call is given the lowest free number.
AddMessagesStart(c) ==
  /\ adds[c].pc = "idle"
  /\ \A d \in AddCalls: d < c => adds[d].pc = "await"
  /\ \E batch \in ListsOver(IndexPool, MaxBatch):
       LET validMessages == ValidMessages(batch)
       IN /\ Len(vectors) + Awaited + Len(validMessages) <= MaxStored
          /\ submitted' = [id \in PoolIds |-> submitted[id] + Count(validMessages, id)]
          /\ IF Len(validMessages) = 0
             THEN UNCHANGED <<adds, overlapped>>
             ELSE /\ adds' = [adds EXCEPT ![c] = [pc |-> "await", valid |-> validMessages]]
                  /\ overlapped' =
                       (overlapped \/ \E d \in AddCalls \ {c}: adds[d].pc = "await")
  /\ read' = NoRead
  /\ UNCHANGED vectors
  /\ UNCHANGED cleared
  /\ UNCHANGED aiVars
  /\ UNCHANGED auxVars

\* Nothing in the try of addMessages throws: generateEmbeddings catches its
\* own failures and an index past the end of the answer gives undefined.
BatchThrows(validMessages, embeddings) == FALSE

\* addMessage for each message of the sequence, one after the other.
RECURSIVE AddEach(_, _, _, _)
AddEach(stored, msgs, o, mock) ==
  IF msgs = <<>> THEN stored
  ELSE AddEach(IF SingleAccepts(Head(msgs).content)
               THEN Append(stored, Entry(Head(msgs),
                                         generateEmbedding(Head(msgs), o, Head(mock))))
               ELSE stored,
               Tail(msgs), o, Tail(mock))

\* What generateEmbeddings may give for the batch, over the answers of the
\* route and the mock vectors.
BatchEmbeddings(validMessages) ==
  {generateEmbeddings(validMessages, o, mock) :
     o \in EmbedOutcomes, mock \in [1..Len(validMessages) -> MockVectors]}

\* Lines 836-846: the per-message fallback of the catch.
FallbackAdds(stored, msgs) ==
  {AddEach(stored, msgs, o, mock) :
     o \in EmbedOutcomes, mock \in [1..Len(msgs) -> MockVectors]}

\* Lines 806-847: the embeddings arrive; one entry per valid message with
\* the embedding at its index, pushed in one go.
AddMessagesResume(c) ==
  /\ adds[c].pc = "await"
  /\ \E embeddings \in BatchEmbeddings(ValidOf(c)):
       LET validMessages == ValidOf(c)
       IN IF BatchThrows(validMessages, embeddings)
          THEN vectors' \in FallbackAdds(vectors,
                                         SubSeq(validMessages, 1,
                                                Min(Len(validMessages), FallbackLimit)))
          ELSE vectors' = vectors \o [i \in 1..Len(validMessages) |->
                                        Entry(validMessages[i],
                                              EmbeddingAt(embeddings, i))]
  /\ adds' = [adds EXCEPT ![c] = [pc |-> "idle", valid |-> <<>>]]
  /\ read' = NoRead
  /\ UNCHANGED <<submitted, overlapped>>
  /\ UNCHANGED cleared
  /\ UNCHANGED aiVars
  /\ UNCHANGED auxVars

\* Lines 735-777.
AddMessage ==
  /\ Len(vectors) + Awaited < MaxStored
  /\ \E m \in IndexPool, o \in EmbedOutcomes, mock \in MockVectors:
       /\ vectors' = AddEach(vectors, <<m>>, o, <<mock>>)
       /\ submitted' = [submitted EXCEPT
                          ![m.id] = @ + (IF SingleAccepts(m.content) THEN 1 ELSE 0)]
  /\ read' = NoRead
  /\ UNCHANGED <<adds, overlapped>>
  /\ UNCHANGED cleared
  /\ UNCHANGED aiVars
  /\ UNCHANGED auxVars

(***************************************************************************)
(* The reading calls.  map and filter build new arrays, and sort and slice *)
(* work on those: the stored list is as it was.                            *)
(***************************************************************************)
\* The stored list itself reordered by a sort in place.
StoredSortedInPlace(stored) ==
  [i \in 1..Len(stored) |-> stored[Len(stored) + 1 - i]]

StoredAfterRead(stored) == stored

Scored(stored, e) ==
  [i \in 1..Len(stored) |->
     [id |-> stored[i].id, content |-> stored[i].content,
      similarity |-> cosineSimilarity(e, stored[i].embedding)]]

\* sort((a, b) => b.similarity - a.similarity): descending and stable.
RECURSIVE InsertBySimilarity(_, _)
InsertBySimilarity(s, x) ==
  IF s = <<>> THEN <<x>>
  ELSE IF SimGreater(x.similarity, Head(s).similarity) THEN <<x>> \o s
  ELSE <<Head(s)>> \o InsertBySimilarity(Tail(s), x)

RECURSIVE SortBySimilarity(_)
SortBySimilarity(s) ==
  IF s = <<>> THEN <<>>
  ELSE InsertBySimilarity(SortBySimilarity(SubSeq(s, 1, Len(s) - 1)), s[Len(s)])

\* slice(0, limit)
Take(s, limit) == SubSeq(s, 1, Min(Len(s), limit))

\* The filter of semanticSearch.
Relevant(result) == AboveFloor(result.similarity)

\* The catch of semanticSearch rethrowing.
OnSearchFailureRethrow == "raised"

\* Line 896: the catch of semanticSearch returns an empty list.
OnSearchFailure == "returned"

\* What generateEmbedding may give for the query, over the answers of the
\* route and the mock vectors.
QueryEmbeddings(query) ==
  {generateEmbedding([id |-> 0, content |-> query], o, mock) :
     o \in EmbedOutcomes, mock \in MockVectors}

\* Lines 868-900.
SemanticSearch ==
  /\ \E query \in Queries, limit \in 1..MaxLimit:
       IF Len(vectors) = 0
       THEN read' = [NoRead EXCEPT !.op = "search", !.outcome = "returned",
                                   !.limit = limit]
       ELSE \E queryEmbedding \in QueryEmbeddings(query):
            LET here == [NoRead EXCEPT !.op = "search", !.embedded = TRUE,
                                       !.query = queryEmbedding, !.limit = limit]
            IN IF \E i \in 1..Len(vectors):
                    SimilarityThrows(queryEmbedding, vectors[i].embedding)
               THEN read' = [here EXCEPT !.outcome = OnSearchFailure]
               ELSE read' = [here EXCEPT
                               !.outcome = "returned",
                               !.results =
                                 Take(SortBySimilarity(
                                        SelectSeq(Scored(vectors, queryEmbedding),
                                                  Relevant)), limit)]
  /\ vectors' = StoredAfterRead(vectors)
  /\ UNCHANGED <<adds, submitted, overlapped>>
  /\ UNCHANGED cleared
  /\ UNCHANGED aiVars
  /\ UNCHANGED auxVars

StoredIds == {vectors[i].id : i \in 1..Len(vectors)}
Target(messageId) == vectors[CHOOSE i \in 1..Len(vectors):
                               /\ vectors[i].id = messageId
                               /\ \A j \in 1..(i - 1): vectors[j].id # messageId]

\* Lines 903-918: no try around the similarities.
FindSimilarMessages ==
  /\ \E messageId \in {m.id : m \in IndexPool}, limit \in 1..MaxLimit:
       LET here == [NoRead EXCEPT !.op = "similar", !.limit = limit]
       IN IF messageId \notin StoredIds
          THEN read' = [here EXCEPT !.outcome = "returned"]
          ELSE LET targetVector == Target(messageId)
                   others == SelectSeq(vectors, LAMBDA v: v.id # messageId)
               IN IF \E i \in 1..Len(others):
                       SimilarityThrows(targetVector.embedding, others[i].embedding)
                  THEN read' = [here EXCEPT !.outcome = "raised",
                                            !.query = targetVector.embedding]
                  ELSE read' = [here EXCEPT
                                  !.outcome = "returned",
                                  !.query = targetVector.embedding,
                                  !.results =
                                    Take(SortBySimilarity(
                                           Scored(others, targetVector.embedding)),
                                         limit)]
  /\ vectors' = StoredAfterRead(vectors)
  /\ UNCHANGED <<adds, submitted, overlapped>>
  /\ UNCHANGED cleared
  /\ UNCHANGED aiVars
  /\ UNCHANGED auxVars

\* Lines 921-958: the counts by type and room and the date range are sums
\* over the list; the total is its length.
GetStats ==
  /\ read' = [NoRead EXCEPT !.op = "stats", !.outcome = "returned",
                            !.total = Len(vectors)]
  /\ vectors' = StoredAfterRead(vectors)
  /\ UNCHANGED <<adds, submitted, overlapped>>
  /\ UNCHANGED cleared
  /\ UNCHANGED aiVars
  /\ UNCHANGED auxVars

\* The analysis is not running.
AnalysisIdle ==
  /\ cfg = [p \in Providers |-> FALSE]
  /\ hfQuality = "usable"
  /\ messages = <<>>
  /\ Fresh

\* A new index.
InitIndex == AnalysisIdle

NextIndex ==
  \/ \E c \in AddCalls: AddMessagesStart(c)
  \/ \E c \in AddCalls: AddMessagesResume(c)
  \/ AddMessage
  \/ GetStats

SpecIndex == InitIndex /\ [][NextIndex]_vars

\* The entries addMessages and addMessage store: a message that passed the
\* filter of its call with what generateEmbeddings or generateEmbedding
\* gave for it.
StorableEntries ==
  {Entry(m, generateEmbedding(m, o, mock)) :
     m \in {x \in IndexPool: SingleAccepts(x.content)},
     o \in EmbedOutcomes, mock \in MockVectors}
  \cup
  {Entry(m, EmbeddingAt(generateEmbeddings(<<m>>, o, <<mock>>), 1)) :
     m \in {x \in IndexPool: BatchAccepts(x.content)},
     o \in EmbedOutcomes, mock \in MockVectors}

\* An index after any calls of addMessages and addMessage, no call awaiting.
InitSearch ==
  /\ cfg = [p \in Providers |-> FALSE]
  /\ hfQuality = "usable"
  /\ messages = <<>>
  /\ hfFailed = FALSE
  /\ given = messages
  /\ op = "none"
  /\ pc = "idle"
  /\ units = <<>>
  /\ idx = 0
  /\ cur = EmptyResult
  /\ summaries = <<>>
  /\ knowledge = <<>>
  /\ prioritized = <<>>
  /\ calls = {}
  /\ lateHfCall = FALSE
  /\ hfFailedOnAbort = FALSE
  /\ vectors \in ListsOver(StorableEntries, MaxStored)
  /\ adds = [c \in AddCalls |-> [pc |-> "idle", valid |-> <<>>]]
  /\ submitted = [id \in PoolIds |-> Count(vectors, id)]
  /\ overlapped = FALSE
  /\ read = NoRead
  /\ cleared = "no"
  /\ AuxFresh

NextSearch ==
  \/ SemanticSearch
  \/ FindSimilarMessages
  \/ GetStats

SpecSearch == InitSearch /\ [][NextSearch]_vars

(***************************************************************************)
(* callGeminiWithRetry: the loop of lines 241-252 and the throw of line    *)
(* 254.  The call is suspended at the await of callGemini and at the       *)
(* await of the backoff timer.                                             *)
(***************************************************************************)
\* The loop goes on after a response as after a throw.
OnRetrySuccessContinue == "wait"

\* Line 245: return response.
OnRetrySuccess == "returned"

\* Lines 237-239.
RetryStart ==
  /\ retry.pc = "idle"
  /\ \E caller \in RetryCallers:
       retry' = [NoRetry EXCEPT !.pc = "loop", !.caller = caller]
  /\ UNCHANGED <<aiVars, indexVars, heur, embed, decode, matrix>>

\* Lines 241-250: one attempt; on a throw the error is kept, attempt is
\* incremented and the backoff is computed from the incremented value.
RetryAttempt ==
  /\ retry.pc = "loop"
  /\ retry.attempt < RetryAttempts
  /\ \E o \in CallGeminiOutcomes:
       IF o = "ok"
       THEN retry' = [retry EXCEPT !.pc = OnRetrySuccess,
                                   !.calls = @ + 1,
                                   !.result = "response"]
       ELSE LET attempt == retry.attempt + 1
                backoff == Pow2(attempt) * BackoffBase
            IN retry' = [retry EXCEPT !.pc = "wait",
                                      !.calls = @ + 1,
                                      !.attempt = attempt,
                                      !.errors = Append(@, o),
                                      !.waits = Append(@, backoff)]
  /\ UNCHANGED <<aiVars, indexVars, heur, embed, decode, matrix>>

\* Line 250: the timer fires; back to the test of the loop.
RetryWake ==
  /\ retry.pc = "wait"
  /\ retry' = [retry EXCEPT !.pc = "loop"]
  /\ UNCHANGED <<aiVars, indexVars, heur, embed, decode, matrix>>

\* Line 254: throw lastError.
RetryThrow ==
  /\ retry.pc = "loop"
  /\ retry.attempt >= RetryAttempts
  /\ retry' = [retry EXCEPT !.pc = "raised", !.result = retry.errors[Len(retry.errors)]]
  /\ UNCHANGED <<aiVars, indexVars, heur, embed, decode, matrix>>

NextRetry ==
  \/ RetryStart
  \/ RetryAttempt
  \/ RetryWake
  \/ RetryThrow

SpecRetry == AnalysisIdle /\ [][NextRetry]_vars

(***************************************************************************)
(* calculatePriorityHeuristic on conversations around its thresholds: n    *)
(* messages of one room with the same content and time stamp, the text     *)
(* being formatMessagesForAI of them as at its call sites.                 *)
(***************************************************************************)
HeurCounts == {1, 2, 10, 11, 20, 21}
\* Older than 24 h, exactly 24 h old, one millisecond younger, just sent.
HeurStamps == {0, Now - oneDay, Now - oneDay + 1, Now}
HeurContents ==
  { ShortContent, RequestContent, UrgentContent,
    [words |-> <<"see", "you", "at", "noon">>, qmarks |-> 0],
    [words |-> <<"urgent", "urgent", "call">>, qmarks |-> 0],
    [words |-> <<"really">>, qmarks |-> 4],
    [words |-> <<"asap", "emergency", "critical">>, qmarks |-> 2] }

HeurMessages(h) == [i \in 1..h.n |-> Message(h.room, h.stamp, h.content)]

\* calculatePriorityHeuristic(conversationText, roomMessages), ai.ts:138.
PriorityHeuristic ==
  /\ heur.priority = "none"
  /\ \E n \in HeurCounts, stamp \in HeurStamps, content \in HeurContents, room \in Rooms:
       LET h == [n |-> n, stamp |-> stamp, content |-> content, room |-> room,
                 priority |-> "none"]
           msgs == HeurMessages(h)
       IN heur' = [h EXCEPT !.priority =
                     calculatePriorityHeuristic(formatMessagesForAI(msgs), msgs)]
  /\ UNCHANGED <<aiVars, indexVars, retry, embed, decode, matrix>>

NextPriority == PriorityHeuristic

SpecPriority == AnalysisIdle /\ [][NextPriority]_vars

(***************************************************************************)
(* The embeddings route, POST /api/ai/embeddings: the handler with the     *)
(* Gemini embedding call (part_002) and the handler with the Hugging Face  *)
(* feature extraction (src/pages/api/ai/embeddings.ts).  A request is the  *)
(* keys of the environment and, per text, what each provider answers when  *)
(* it is asked.                                                            *)
(***************************************************************************)
\* callGeminiEmbedding: an embedding array, a non-2xx status, or a body in
\* which no array is found.
GeminiEmbeddingOutcomes == {"ok", "http", "noarray"}
\* hf.featureExtraction: the embedding, or a throw.
FeatureExtractionOutcomes == {"ok", "fail"}

EmbedRequests ==
  UNION {[hfKey : BOOLEAN, geminiKey : BOOLEAN,
          gemini : [1..n -> GeminiEmbeddingOutcomes],
          hf : [1..n -> FeatureExtractionOutcomes]] : n \in 0..MaxTexts}

Responded(handler, req, status, sources) ==
  [pc |-> "responded", handler |-> handler, req |-> req, status |-> status,
   sources |-> sources]

\* part_002, lines 16-77: without any key 500; per text the Gemini call
\* when there is a Gemini key, and the mock vector when there is no
\* embedding after it.
GeminiEmbeddingsHandler ==
  /\ embed.pc = "idle"
  /\ \E req \in EmbedRequests:
       embed' =
         IF ~req.hfKey /\ ~req.geminiKey
         THEN Responded("gemini", req, 500, <<>>)
         ELSE Responded("gemini", req, 200,
                [i \in 1..Len(req.gemini) |->
                   IF req.geminiKey /\ req.gemini[i] = "ok" THEN "gemini" ELSE "mock"])
  /\ UNCHANGED <<aiVars, indexVars, retry, heur, decode, matrix>>

\* src/pages/api/ai/embeddings.ts, lines 13-65: the key read is HF_API_KEY
\* only; per text the feature extraction, and the mock vector when it
\* throws.
FeatureExtractionHandler ==
  /\ embed.pc = "idle"
  /\ \E req \in {r \in EmbedRequests: ~r.geminiKey}:
       embed' =
         IF ~req.hfKey
         THEN Responded("hf", req, 500, <<>>)
         ELSE Responded("hf", req, 200,
                [i \in 1..Len(req.hf) |->
                   IF req.hf[i] = "ok" THEN "hf" ELSE "mock"])
  /\ UNCHANGED <<aiVars, indexVars, retry, heur, decode, matrix>>

NextEmbed ==
  \/ GeminiEmbeddingsHandler
  \/ FeatureExtractionHandler

SpecEmbed == AnalysisIdle /\ [][NextEmbed]_vars

(***************************************************************************)
(* The decoding of a Gemini response text in generateDailySummary,         *)
(* extractTopics and generateInsights (src/pages/api/ai/geminiAI.ts).  A   *)
(* text is a sequence of tokens: the brackets, "m" for JSON members or     *)
(* elements, "t" for other text.                                           *)
(***************************************************************************)
Tokens == {"{", "}", "[", "]", "m", "t"}

ResponseTexts == UNION {[1..n -> Tokens] : n \in 0..MaxTokens}

FirstIndex(text, tok) ==
  IF \E i \in 1..Len(text): text[i] = tok
  THEN CHOOSE i \in 1..Len(text):
         text[i] = tok /\ \A j \in 1..(i - 1): text[j] # tok
  ELSE 0

LastIndex(text, tok) ==
  IF \E i \in 1..Len(text): text[i] = tok
  THEN CHOOSE i \in 1..Len(text):
         text[i] = tok /\ \A j \in (i + 1)..Len(text): text[j] # tok
  ELSE 0

NoMatch == [from |-> 0, to |-> 0]

\* The match stops at the closing bracket that balances the opening one.
BalancedMatch(text, open, close) ==
  LET i == FirstIndex(text, open)
      Opens(j) == Cardinality({k \in i..j: text[k] = open})
      Closes(j) == Cardinality({k \in i..j: text[k] = close})
      ends == {j \in i..Len(text): Opens(j) = Closes(j)}
  IN IF i = 0 \/ ends = {} THEN NoMatch
     ELSE [from |-> i, to |-> CHOOSE j \in ends: \A k \in ends: j <= k]

\* content.match(/\{[\s\S]*\}/) and content.match(/\[[\s\S]*\]/): from the
\* first opening bracket to the last closing one.
GreedyMatch(text, open, close) ==
  LET i == FirstIndex(text, open)
      j == LastIndex(text, close)
  IN IF i > 0 /\ j > i THEN [from |-> i, to |-> j] ELSE NoMatch

\* JSON.parse of a substring that starts with a bracket: one value, its
\* brackets nested and matched, nothing but members inside, nothing after.
RECURSIVE ScanJSON(_, _, _)
ScanJSON(seq, k, stack) ==
  IF k > Len(seq) THEN stack = <<>>
  ELSE IF k > 1 /\ stack = <<>> THEN FALSE
  ELSE CASE seq[k] \in {"{", "["} -> ScanJSON(seq, k + 1, <<seq[k]>> \o stack)
         [] seq[k] = "}" ->
              stack # <<>> /\ Head(stack) = "{" /\ ScanJSON(seq, k + 1, Tail(stack))
         [] seq[k] = "]" ->
              stack # <<>> /\ Head(stack) = "[" /\ ScanJSON(seq, k + 1, Tail(stack))
         [] seq[k] = "m" -> stack # <<>> /\ ScanJSON(seq, k + 1, stack)
         [] OTHER -> FALSE

JSONParses(text, match) ==
  match # NoMatch /\ ScanJSON(SubSeq(text, match.from, match.to), 1, <<>>)

\* The decoding chain of the three methods: the match, JSON.parse in a try
\* of its own, and the fallback on the whole text.
DecodeText(method, text, open, close, fallback) ==
  LET match == GreedyMatch(text, open, close)
  IN [pc |-> "decoded", method |-> method, text |-> text,
      source |-> IF JSONParses(text, match) THEN "json" ELSE fallback,
      from |-> IF JSONParses(text, match) THEN match.from ELSE 0,
      to |-> IF JSONParses(text, match) THEN match.to ELSE 0]

\* Lines 101-121: the object, else parseAnalysisFromText.
DecodeDailySummary ==
  /\ decode.pc = "idle"
  /\ \E text \in ResponseTexts:
       decode' = DecodeText("generateDailySummary", text, "{", "}", "keywords")
  /\ UNCHANGED <<aiVars, indexVars, retry, heur, embed, matrix>>

\* Lines 175-192: the array, else the comma split.
DecodeTopics ==
  /\ decode.pc = "idle"
  /\ \E text \in ResponseTexts:
       decode' = DecodeText("extractTopics", text, "[", "]", "commas")
  /\ UNCHANGED <<aiVars, indexVars, retry, heur, embed, matrix>>

\* Lines 210-228: the array, else the numbered lines.
DecodeInsights ==
  /\ decode.pc = "idle"
  /\ \E text \in ResponseTexts:
       decode' = DecodeText("generateInsights", text, "[", "]", "numbered")
  /\ UNCHANGED <<aiVars, indexVars, retry, heur, embed, matrix>>

NextDecode ==
  \/ DecodeDailySummary
  \/ DecodeTopics
  \/ DecodeInsights

SpecDecode == AnalysisIdle /\ [][NextDecode]_vars

(***************************************************************************)
(* clear(), and the index used the way testVectorStorage uses it: clear,   *)
(* addMessages, semanticSearch, with getStats in between.                  *)
(***************************************************************************)
\* The list is left as it is.
ClearKeepsStored(stored) == stored

\* Line 962: this.vectors = [].
ClearStored(stored) == <<>>

\* Lines 961-964.  The messages of a call that awaits its embeddings are
\* still to be pushed.
Clear ==
  /\ vectors' = ClearStored(vectors)
  /\ cleared' = IF \A c \in AddCalls: adds[c].pc = "idle" THEN "quiet" ELSE "busy"
  /\ submitted' =
       [id \in PoolIds |->
          Cardinality({<<c, i>> \in AddCalls \X (1..MaxStored):
                         i <= Len(adds[c].valid) /\ adds[c].valid[i].id = id})]
  /\ read' = NoRead
  /\ UNCHANGED <<adds, overlapped>>
  /\ UNCHANGED aiVars
  /\ UNCHANGED auxVars

\* semanticSearch on the index as clear() left it.
SearchCleared ==
  /\ cleared # "no"
  /\ Len(vectors) = 0
  /\ SemanticSearch

\* The test awaits each call before the next: one addMessages at a time.
\* Searches of an index that holds records are those of SpecSearch.
NextClear ==
  \/ Clear
  \/ AddMessagesStart(1)
  \/ AddMessagesResume(1)
  \/ SearchCleared
  \/ GetStats

SpecClear == InitIndex /\ [][NextClear]_vars

(***************************************************************************)
(* MessageMindMatrix.start and stop.  start() is left at its await while   *)
(* startClient is in progress; other calls run in between.                 *)
(***************************************************************************)
\* Lines 660-664: start() up to its await.
MatrixStart(c) ==
  /\ matrix.start[c] # "awaiting"
  /\ IF matrix.isStarted
     THEN matrix' = [matrix EXCEPT !.start[c] = "returned"]
     ELSE /\ matrix.invoked < MaxInvoked
          /\ matrix' = [matrix EXCEPT !.start[c] = "awaiting",
                                      !.live = @ \cup {c},
                                      !.invoked = @ + 1]
  /\ UNCHANGED <<aiVars, indexVars, retry, heur, embed, decode>>

\* Lines 665-666: startClient has resolved.
MatrixStartResolved(c) ==
  /\ matrix.start[c] = "awaiting"
  /\ matrix' = [matrix EXCEPT !.start[c] = "returned",
                              !.isStarted = TRUE,
                              !.succeeded = TRUE]
  /\ UNCHANGED <<aiVars, indexVars, retry, heur, embed, decode>>

\* Lines 667-670: startClient has rejected; the error is thrown again.
MatrixStartRejected(c) ==
  /\ matrix.start[c] = "awaiting"
  /\ matrix' = [matrix EXCEPT !.start[c] = "thrown",
                              !.live = @ \ {c},
                              !.failedLeft = IF matrix.isStarted THEN "true" ELSE "false"]
  /\ UNCHANGED <<aiVars, indexVars, retry, heur, embed, decode>>

\* Lines 673-679: stop() has no await and runs in one step.
MatrixStop ==
  /\ IF ~matrix.isStarted
     THEN matrix' = [matrix EXCEPT !.lastStop = "skipped",
                                   !.live = {},
                                   !.succeeded = FALSE]
     ELSE matrix' = [matrix EXCEPT !.isStarted = FALSE,
                                   !.lastStop = "stopped",
                                   !.live = {},
                                   !.succeeded = FALSE]
  /\ UNCHANGED <<aiVars, indexVars, retry, heur, embed, decode>>

NextMatrix ==
  \/ \E c \in StartCalls: MatrixStart(c)
  \/ \E c \in StartCalls: MatrixStartResolved(c)
  \/ \E c \in StartCalls: MatrixStartRejected(c)
  \/ MatrixStop

SpecMatrix == AnalysisIdle /\ [][NextMatrix]_vars

DailyNext ==
  \/ DailyStart
  \/ DailyNoUnit
  \/ UnitHeuristicsOnly
  \/ UnitGemini
  \/ UnitNoGemini
  \/ SummaryGemini
  \/ SummaryGPT
  \/ SummaryHF
  \/ Sentiment
  \/ Topics
  \/ Insights
  \/ Patterns
  \/ ActionItems
  \/ Priority
  \/ DailyReturn

Next == DailyNext

Spec == Init /\ [][Next]_vars

(***************************************************************************)
(* A provider that never answers.  callGemini and callGPT await fetch      *)
(* with no AbortController and no timer, so a request that is never        *)
(* answered leaves generateDailySummary at its await; callHuggingFaceAPI   *)
(* aborts its fetch after 10 s (the "abort" outcome of the calls above).   *)
(***************************************************************************)
\* callGemini: the fetch is never settled.
GeminiSilent ==
  /\ op = "daily"
  /\ \/ pc = "unit" /\ Len(units) > 0 /\ ~HeuristicsOnly(hfFailed) /\ GeminiAvailable
     \/ pc = "summaryGemini" /\ GeminiAvailable /\ HasInput
  /\ pc' = "awaitGemini"
  /\ calls' = calls \cup {"gemini"}
  /\ UNCHANGED indexVars
  /\ UNCHANGED auxVars
  /\ UNCHANGED <<cfg, hfQuality, hfFailed, messages, given, op, units, idx, cur,
                 summaries, knowledge, prioritized, lateHfCall, hfFailedOnAbort>>

\* callGPT: the fetch is never settled.
GPTSilent ==
  /\ op = "daily"
  /\ pc = "summaryGPT"
  /\ GPTAvailable /\ HasInput
  /\ pc' = "awaitGPT"
  /\ calls' = calls \cup {"gpt"}
  /\ UNCHANGED indexVars
  /\ UNCHANGED auxVars
  /\ UNCHANGED <<cfg, hfQuality, hfFailed, messages, given, op, units, idx, cur,
                 summaries, knowledge, prioritized, lateHfCall, hfFailedOnAbort>>

NextLive ==
  \/ DailyNext
  \/ GeminiSilent
  \/ GPTSilent

\* The event loop runs every continuation that is ready.
SpecLive == Init /\ [][NextLive]_vars /\ WF_vars(NextLive)

(***************************************************************************)
(* Properties.                                                             *)
(***************************************************************************)
DailyDone == op = "daily" /\ pc = "done"

\* The positions of generateDailySummary from which the run goes on, and
\* the one where it has returned.
DailyPositions ==
  {"unit", "summaryGemini", "summaryGPT", "summaryHF", "sentiment", "topics",
   "insights", "patterns", "actionItems", "priority", "sort", "done"}

\* C1: whatever Gemini, GPT and Hugging Face answer (success, HTTP error,
\* abort, malformed body), generateDailySummary does not raise: the run is
\* never at the raised position, only at positions from which it goes on or
\* has returned, and the returned list has one result per room processed.
C1_NeverRaises ==
  /\ pc # "raised"
  /\ (op = "daily" => pc \in DailyPositions)
  /\ (DailyDone => Len(summaries) = Len(units))

\* A run has returned a result whose summary is the local one after all
\* three providers were called and failed.
C1_Witness ==
  /\ DailyDone
  /\ calls = Providers
  /\ hfFailed
  /\ \E i \in 1..Len(summaries):
       /\ summaries[i].tried["summary"] = Providers
       /\ summaries[i].src["summary"] = "heuristic"

\* C2: with no key configured generateDailySummary calls no provider, every
\* field of every result comes from the heuristics, and sentiment and
\* priority are values of their enums.
C2_NoProviderAllHeuristic ==
  (op = "daily" /\ Configured = {}) =>
    /\ calls = {}
    /\ \A i \in 1..Len(summaries):
         /\ \A k \in Capabilities: summaries[i].src[k] = "heuristic"
         /\ summaries[i].sentiment \in Sentiments
         /\ summaries[i].priority \in Priorities

\* A run without any key has returned a result.
C2_Witness ==
  /\ DailyDone
  /\ Configured = {}
  /\ Len(summaries) > 0

\* C3: a capability's output comes from the heuristics only after every
\* configured provider was attempted for it (Hugging Face excepted once it
\* is marked failed).
C3_HeuristicsAfterAllProviders ==
  op = "daily" =>
    \A i \in 1..Len(summaries): \A k \in Capabilities:
      summaries[i].src[k] = "heuristic" =>
        /\ (Configured \ {"hf"}) \subseteq summaries[i].tried[k]
        /\ (cfg["hf"] => ("hf" \in summaries[i].tried[k] \/ hfFailed))

\* The index of the room's unit in the order of processing.
UnitIndex(roomName) == CHOOSE i \in 1..Len(units): units[i][1].roomName = roomName

Weight(i) == getPriorityWeight(summaries[i].priority)

\* C4: the returned list is ordered by priority weight, highest first, and
\* results of equal weight are in the order their units were processed.
C4_StableSortByPriority ==
  DailyDone =>
    /\ Len(summaries) = Len(units)
    /\ \A i, j \in 1..Len(summaries):
         i < j =>
           /\ Weight(i) >= Weight(j)
           /\ (Weight(i) = Weight(j) =>
                 UnitIndex(summaries[i].roomName) < UnitIndex(summaries[j].roomName))

\* A run has returned two results of equal weight.
C4_Witness ==
  /\ DailyDone
  /\ Len(summaries) = 2
  /\ Weight(1) = Weight(2)
  /\ summaries[1].src # summaries[2].src

\* C5: every result has at most 5 key topics, at most 3 insights, patterns
\* and action items, and a sentiment and a priority of their enums.
C5_ResultBounds ==
  op = "daily" =>
    \A i \in 1..Len(summaries):
      /\ summaries[i].keyTopics <= MaxTopics
      /\ summaries[i].insights <= MaxItems
      /\ summaries[i].patterns <= MaxItems
      /\ summaries[i].actionItems <= MaxItems
      /\ summaries[i].sentiment \in Sentiments
      /\ summaries[i].priority \in Priorities

(***************************************************************************)
(* Properties of the segmentation.                                         *)
(***************************************************************************)
Plain(m) == [roomName |-> m.roomName, timestamp |-> m.timestamp, content |-> m.content]
PlainUnits(us) == [i \in 1..Len(us) |-> [j \in 1..Len(us[i]) |-> Plain(us[i][j])]]
Permuted(s, p) == [i \in 1..Len(s) |-> s[p[i]]]

\* C6: groupMessagesByConversation gives the same sequence of units (same
\* rooms, time stamps and contents in the same order) for every permutation
\* of the list it is given.
C6_OrderIndependent ==
  op = "kb" =>
    \A p \in Permutations(1..Len(given)):
      PlainUnits(groupMessagesByConversation(SortByTimestamp(Permuted(given, p))))
        = PlainUnits(units)

GroupOf(groups, id) ==
  CHOOSE g \in 1..Len(groups): \E i \in 1..Len(groups[g]): groups[g][i].id = id

\* Positions i < j of the sorted list hold messages of one room with no
\* message of that room between them.
AdjacentInRoom(i, j) ==
  /\ i < j
  /\ messages[i].roomName = messages[j].roomName
  /\ \A k \in (i + 1)..(j - 1): messages[k].roomName # messages[i].roomName

\* C8: two messages adjacent in the time order of their room are in the
\* same group exactly when they are at most the window apart, whatever
\* messages of other rooms lie between them.
C8_PartitionByRoom ==
  op = "kb" =>
    LET groups == ConversationGroups(messages)
    IN \A i, j \in 1..Len(messages):
         AdjacentInRoom(i, j) =>
           ((GroupOf(groups, messages[i].id) = GroupOf(groups, messages[j].id))
              <=> (messages[j].timestamp - messages[i].timestamp <= oneHour))

(***************************************************************************)
(* Properties of the results per unit and of the caller's list.            *)
(***************************************************************************)
\* The messages of the room among the given ones of the date.
RoomMessages(roomName, date) ==
  SelectSeq(OnDate(given, date), LAMBDA m: m.roomName = roomName)

RoomsOn(date) == {given[i].roomName : i \in {k \in 1..Len(given): DayOf(given[k].timestamp) = date}}

C10_CallerListUnchanged == messages = given

(***************************************************************************)
(* Properties of the vector index.                                         *)
(***************************************************************************)
AddsIdle == \A c \in AddCalls: adds[c].pc = "idle"

\* How many of the messages awaited by the calls have the id.
AwaitedOf(id) ==
  Cardinality({<<c, i>> \in AddCalls \X (1..MaxStored):
                 i <= Len(adds[c].valid) /\ adds[c].valid[i].id = id})

RECURSIVE Total(_, _)
Total(f, ids) ==
  IF ids = {} THEN 0
  ELSE LET id == CHOOSE x \in ids: TRUE IN f[id] + Total(f, ids \ {id})

IsMock(e) == e.kind = "vector" /\ e.dim = Dimension /\ e.v \in MockVectors

\* C11: every stored record has a trimmed content of at least 3 characters
\* that does not start with '!' and has neither 'bridged' nor 'WhatsApp
\* bridge bot' in it.
C11_StoredPassFilter ==
  \A i \in 1..Len(vectors):
    /\ ContentLength(vectors[i].content) >= 3
    /\ ~StartsWithBang(vectors[i].content)
    /\ ~IncludesPhrase(vectors[i].content.words, <<"bridged">>)
    /\ ~IncludesPhrase(vectors[i].content.words, <<"WhatsApp", "bridge", "bot">>)

\* C12: every stored record has an embedding of exactly 384 components.
C12_StoredDimension ==
  \A i \in 1..Len(vectors):
    /\ vectors[i].embedding.kind = "vector"
    /\ vectors[i].embedding.dim = 384

\* C13: when no addMessages call is in progress the index holds as many
\* records as messages passed the filter, and getStats reports that number
\* as totalMessages, whether the embeddings route answered or failed.
C13_StatsCountValid ==
  AddsIdle =>
    /\ Len(vectors) = Total(submitted, PoolIds)
    /\ (read.op = "stats" => read.total = Total(submitted, PoolIds))

\* getStats has reported two records, stored with fallback vectors.
C13_Witness ==
  /\ AddsIdle
  /\ read.op = "stats"
  /\ read.total = 2
  /\ \A i \in 1..Len(vectors): IsMock(vectors[i].embedding)

\* C14: when the embeddings route fails (HTTP status, network error, body
\* that is not JSON or has no embeddings) generateEmbeddings gives one
\* fallback vector of 384 components per valid message, nothing is thrown
\* in addMessages, and once the calls are over every valid message is
\* stored.
C14_FallbackOnFailure ==
  /\ \A c \in AddCalls:
       adds[c].pc = "await" =>
         \A o \in {x \in EmbedOutcomes: RouteFails(x)},
            mock \in [1..Len(ValidOf(c)) -> MockVectors]:
           LET embeddings == generateEmbeddings(ValidOf(c), o, mock)
           IN /\ Len(embeddings) = Len(ValidOf(c))
              /\ \A i \in 1..Len(embeddings): IsMock(embeddings[i])
              /\ ~BatchThrows(ValidOf(c), embeddings)
  /\ \A id \in PoolIds: Count(vectors, id) + AwaitedOf(id) = submitted[id]

\* A batch of two valid messages was stored with fallback vectors.
C14_Witness ==
  /\ AddsIdle
  /\ Len(vectors) = 2
  /\ vectors[1].id # vectors[2].id
  /\ \A i \in 1..Len(vectors):
       IsMock(vectors[i].embedding) /\ BatchAccepts(vectors[i].content)

\* C15: semanticSearch returns and does not raise; on an empty index it
\* returns the empty list without asking for an embedding.
C15_SearchNeverRaises ==
  read.op = "search" =>
    /\ read.outcome = "returned"
    /\ (Len(vectors) = 0 => ~read.embedded /\ read.results = <<>>)
    /\ (Len(vectors) > 0 => read.embedded)

\* A search of a non-empty index has returned although the embedding of the
\* query failed and a stored record has no embedding.
C15_Witness ==
  /\ read.op = "search"
  /\ IsMock(read.query)
  /\ \E i \in 1..Len(vectors): vectors[i].embedding.kind = "undefined"
  /\ read.outcome = "returned"

\* similarity >= 0.1
AtLeastFloor(x) == x.num > 0 /\ 100 * x.num * x.num >= x.den2

\* C16: a search returns at most limit results in non-increasing order of
\* similarity, all of similarity 0.1 or more, as many as there are such
\* records up to the limit, and none left out is more similar than one
\* returned.
C16_TopKAboveFloor ==
  (read.op = "search" /\ Len(vectors) > 0) =>
    LET scored == Scored(vectors, read.query)
        eligible == {i \in 1..Len(scored): AtLeastFloor(scored[i].similarity)}
        results == read.results
    IN /\ Len(results) = Min(read.limit, Cardinality(eligible))
       /\ \A i, j \in 1..Len(results):
            i < j => ~SimGreater(results[j].similarity, results[i].similarity)
       /\ \A i \in 1..Len(results): AtLeastFloor(results[i].similarity)
       /\ \A e \in eligible:
            \/ \E i \in 1..Len(results): results[i] = scored[e]
            \/ \A i \in 1..Len(results):
                 ~SimGreater(scored[e].similarity, results[i].similarity)

\* C17: semanticSearch, findSimilarMessages and getStats leave the stored
\* list as it was, whether they return or raise.
C17_ReadsKeepRecords ==
  [][(SemanticSearch \/ FindSimilarMessages \/ GetStats) => vectors' = vectors]_vars

\* findSimilarMessages has raised on an index of two records.
C17_Witness ==
  /\ read.op = "similar"
  /\ read.outcome = "raised"
  /\ Len(vectors) = 2

\* C18: with addMessages calls overlapping, no message that passed the
\* filter is lost or stored twice over (per id, the stored and the awaited
\* ones are the submitted ones), and every embedding stored is the one
\* answered for its own message.
C18_OverlapKeepsAll ==
  /\ \A id \in PoolIds: Count(vectors, id) + AwaitedOf(id) = submitted[id]
  /\ (AddsIdle => Len(vectors) = Total(submitted, PoolIds))
  /\ \A i \in 1..Len(vectors):
       vectors[i].embedding.kind = "vector" =>
         vectors[i].embedding.for = vectors[i].id

\* Two overlapping calls with different messages are both over.
C18_Witness ==
  /\ overlapped
  /\ AddsIdle
  /\ Len(vectors) = 2
  /\ vectors[1].id # vectors[2].id
  /\ \A i \in 1..Len(vectors): vectors[i].embedding.kind = "vector"

\* C19: no two stored records have the same id.
C19_UniqueIds ==
  \A i, j \in 1..Len(vectors): i # j => vectors[i].id # vectors[j].id

\* C20: under fair scheduling a generateDailySummary that was called
\* eventually returns, whatever the providers do, one that never answers
\* included.
C20_EventuallyReturns == (op = "daily") ~> (pc = "done")

(***************************************************************************)
(* Properties of callGeminiWithRetry.                                      *)
(***************************************************************************)
\* C21: a call of callGeminiWithRetry issues at most 3 calls of callGemini;
\* when it has returned, the call that succeeded was the last one issued
\* and its response is the result; when it has raised, 3 calls were issued,
\* all failed, and the error raised is that of the last one.
C21_AtMostThreeCalls ==
  /\ retry.calls <= 3
  /\ retry.calls <= Len(retry.errors) + 1
  /\ (retry.pc = "returned" =>
        retry.calls = Len(retry.errors) + 1 /\ retry.result = "response")
  /\ (retry.pc = "raised" =>
        /\ retry.calls = 3
        /\ Len(retry.errors) = 3
        /\ retry.result = retry.errors[3])
  /\ (retry.pc \in {"loop", "wait"} => retry.calls = Len(retry.errors))

\* The third attempt succeeded after two failures.
C21_Witness ==
  /\ retry.pc = "returned"
  /\ retry.calls = 3
  /\ Len(retry.errors) = 2

\* C22: the wait after failed attempt number a (from 0) lasts 200 * 2^a ms,
\* and there are waits only between attempts: at most 2 for 3 attempts.
C22_BackoffBetweenAttempts ==
  /\ \A i \in 1..Len(retry.waits): retry.waits[i] = 200 * Pow2(i - 1)
  /\ Len(retry.waits) <= 3 - 1

(***************************************************************************)
(* Properties of the Hugging Face failure flag.                            *)
(***************************************************************************)
\* C23: no call of callHuggingFaceAPI is issued while hfFailed is set.
C23_NoCallAfterFlag == ~lateHfCall

\* C24: hfFailed is not set by a transient failure: a call that was
\* aborted after 10 s or never connected leaves it unset.
C24_FlagOnlyOnTerminal == ~hfFailedOnAbort

(***************************************************************************)
(* Properties of calculatePriorityHeuristic.                               *)
(***************************************************************************)
\* The text has a line per message out of the last 15, unless the content
\* is shorter than 3 characters.
HeurLines == IF ContentLength(heur.content) < 3 THEN 0 ELSE Min(heur.n, 15)

\* The urgent keywords found in the text.
HeurHits ==
  IF HeurLines = 0 THEN 0
  ELSE Cardinality({w \in {"urgent", "asap", "emergency", "important", "critical"}:
                      \E i \in 1..Len(heur.content.words): heur.content.words[i] = w})

\* The score of the claim, a message counting as recent when age(m) holds.
HeurScore(recent) ==
  2 * HeurHits
  + (IF heur.n > 20 THEN 1 ELSE 0)
  + (IF HeurLines * heur.content.qmarks > 3 THEN 1 ELSE 0)
  + (IF recent /\ heur.n > 10 THEN 1 ELSE 0)

HeurAgrees(score) ==
  /\ heur.priority = "high" <=> score >= 3
  /\ heur.priority = "medium" <=> (1 <= score /\ score < 3)
  /\ heur.priority = "low" <=> score = 0

\* C25 as stated: high iff score >= 3, medium iff 1 <= score < 3, low iff
\* score = 0, the score adding 2 per urgent keyword found, 1 for more than
\* 20 messages, 1 for more than 3 question marks and 1 for more than 10
\* messages at most 24 h old.
C25_PriorityByScoreInclusive ==
  heur.priority # "none" => HeurAgrees(HeurScore(Now - heur.stamp <= 24 * 60 * 60 * 1000))

\* C25 amended: the same with the last term counting the messages less
\* than 24 h old.
C25_PriorityByScore ==
  heur.priority # "none" => HeurAgrees(HeurScore(Now - heur.stamp < 24 * 60 * 60 * 1000))

\* Eleven plain messages one millisecond short of 24 h: medium by the
\* recency term alone.
C25_Witness ==
  /\ heur.n = 11
  /\ heur.stamp = Now - oneDay + 1
  /\ HeurHits = 0
  /\ heur.content.qmarks = 0
  /\ heur.priority = "medium"

(***************************************************************************)
(* Properties of the embeddings route.                                     *)
(***************************************************************************)
\* C26: in a 200 response a text has a pseudo-random vector only when
\* every provider with a key failed for it; when a provider with a key
\* answers for the text, the vector is a provider's.
C26_MockOnlyWhenAllFailed ==
  (embed.pc = "responded" /\ embed.status = 200) =>
    \A i \in 1..Len(embed.sources):
      LET hfAnswers == embed.req.hfKey /\ embed.req.hf[i] = "ok"
          geminiAnswers == embed.req.geminiKey /\ embed.req.gemini[i] = "ok"
      IN /\ embed.sources[i] = "mock" => ~hfAnswers /\ ~geminiAnswers
         /\ (hfAnswers \/ geminiAnswers) => embed.sources[i] \in {"hf", "gemini"}

(***************************************************************************)
(* Properties of the decoding of Gemini responses.                         *)
(***************************************************************************)
\* C27: a response text is decoded without raising; when its first
\* balanced object (generateDailySummary) or array (extractTopics,
\* generateInsights) parses as JSON the result is decoded from that
\* substring, whatever follows it; otherwise the delimiter heuristic of the
\* method decodes the text.
C27_FirstBalancedJSON ==
  decode.pc # "idle" =>
    LET open == IF decode.method = "generateDailySummary" THEN "{" ELSE "["
        close == IF decode.method = "generateDailySummary" THEN "}" ELSE "]"
        first == BalancedMatch(decode.text, open, close)
    IN /\ decode.pc = "decoded"
       /\ IF JSONParses(decode.text, first)
          THEN /\ decode.source = "json"
               /\ decode.from = first.from
               /\ decode.to = first.to
          ELSE decode.source \in {"keywords", "commas", "numbered"}

\* C28: clear() empties the index. Until a later addMessages stores
\* something, getStats reports 0 and semanticSearch returns an empty
\* sequence without raising; once the calls that followed clear() are over,
\* the index holds exactly the messages of their batches that passed the
\* filter, as an index that was never filled would.
C28_ClearResets ==
  /\ (cleared # "no" /\ Total(submitted, PoolIds) = 0) =>
       /\ Len(vectors) = 0
       /\ (read.op = "stats" => read.total = 0)
       /\ (read.op = "search" =>
             read.outcome = "returned" /\ read.results = <<>>)
  /\ (cleared = "quiet" /\ AddsIdle) =>
       /\ \A id \in PoolIds: Count(vectors, id) = submitted[id]
       /\ \A i \in 1..Len(vectors):
            /\ ContentLength(vectors[i].content) >= MinContent
            /\ ~StartsWithBang(vectors[i].content)
       /\ (read.op = "stats" => read.total = Total(submitted, PoolIds))

\* After clear() one batch was stored and getStats counted its one valid
\* message.
C28_Witness ==
  /\ cleared = "quiet"
  /\ AddsIdle
  /\ Total(submitted, PoolIds) = 1
  /\ read.op = "stats"
  /\ read.total = 1

\* C29: prioritizeMessages returns every message it was given exactly once,
\* in order of non-increasing score, and a message that says 'urgent' in
\* any case stands before every message of the same age that has none of
\* the scored keywords, whatever their order in the input.
C29_UrgentBeforePlain ==
  (op = "prioritize" /\ pc = "done") =>
    /\ Len(prioritized) = Len(given)
    /\ \A i \in 1..Len(given):
         Cardinality({j \in 1..Len(prioritized): prioritized[j] = given[i]}) = 1
    /\ \A i, j \in 1..Len(prioritized):
         i < j => MessageScore(prioritized[i]) >= MessageScore(prioritized[j])
    /\ \A i, j \in 1..Len(prioritized):
         ( /\ prioritized[i].content = ShoutContent
           /\ prioritized[j].content \in {HelloContent, LongContent}
           /\ prioritized[i].timestamp = prioritized[j].timestamp ) => i < j

\* 'Hello there' was given before 'URGENT call me today', both sent now,
\* and the urgent message was returned first.
C29_Witness ==
  /\ op = "prioritize"
  /\ pc = "done"
  /\ Len(given) = 2
  /\ given[1].content = HelloContent
  /\ given[2].content = ShoutContent
  /\ given[1].timestamp = Now
  /\ given[2].timestamp = Now
  /\ prioritized[1].id = 2

\* C30: under every interleaving of start() and stop(), isStarted is true
\* only if a startClient call has completed since the last stop(), a start()
\* that failed left isStarted false, and at most one startClient call that
\* has not failed was invoked since the last stop().
C30_StartStopSafe ==
  /\ matrix.isStarted => matrix.succeeded
  /\ matrix.failedLeft # "true"
  /\ Cardinality(matrix.live) <= 1

====
